---------------------------- MODULE Spec2Model ----------------------------
(***************************************************************************)
(* A state-machine model of lib/Core/Dependency.cpp of the Tracer-X KLEE   *)
(* symbolic virtual machine: the location graph (LocationGraph) and the    *)
(* per-frame dependency store (Dependency).                                *)
(*                                                                         *)
(* Pointers are modelled as positive naturals (0 is the null pointer).     *)
(* A LocationNode* is the index of the node in allNodes, a                 *)
(* MemoryLocation* the index of the location in the heap of locations, a   *)
(* VersionedValue* the index of the versioned value in the heap of         *)
(* versioned values.  Containers ordered by pointer (std::set, std::map)   *)
(* are iterated in ascending index order.                                  *)
(***************************************************************************)
EXTENDS Integers, Sequences, FiniteSets, TLC

VARIABLES graph,   \* the LocationGraph under construction: [allNodes, sinks]
          hung,    \* TRUE once a call has entered a recursion that never returns
          last,    \* the last call made: [op, args, res]
          vvals,   \* the VersionedValue objects allocated so far
          mlocs,   \* the MemoryLocation objects allocated so far
          frames,  \* the chain of Dependency objects, the root first
          aborted, \* TRUE once an assertion has failed
          pc,      \* number of instructions of the path gone through
          shadowArray, \* ShadowArray::shadowArray, the map of shadow arrays
          deleted  \* the MemoryLocation and VersionedValue objects deleted

depVars == <<vvals, mlocs, frames, aborted, pc>>

vars ==
  <<graph, hung, last, vvals, mlocs, frames, aborted, pc, shadowArray, deleted>>

-----------------------------------------------------------------------------
(* Bounds of the model *)

\* number of distinct memory locations handed to the graph
MaxLoc == 2

\* number of Dependency frames of a chain
MaxFrames == 2

\* number of addNewSink and addNewEdge calls that build a graph
MaxCalls == 3

\* number of argument expressions handed over with a call instruction
MaxArgs == 6

Locations == 1..MaxLoc

-----------------------------------------------------------------------------
(* Sequence helpers (std::vector, std::find) *)

InSeq(s, x) == \E i \in DOMAIN s : s[i] = x

Range(s) == {s[i] : i \in DOMAIN s}

\* index of the first element equal to x, 0 when there is none
IndexOf(s, x) ==
  IF InSeq(s, x) THEN CHOOSE i \in DOMAIN s : s[i] = x /\ \A j \in 1..(i-1) : s[j] # x
  ELSE 0

RemoveAt(s, pos) == [i \in 1..(Len(s) - 1) |-> IF i < pos THEN s[i] ELSE s[i + 1]]

\* the elements of a finite set of naturals in ascending order
RECURSIVE SortedSeq(_)
SortedSeq(S) ==
  IF S = {} THEN <<>>
  ELSE LET m == CHOOSE x \in S : \A y \in S : x <= y
       IN <<m>> \o SortedSeq(S \ {m})

-----------------------------------------------------------------------------
(* LocationNode (declared in Dependency.h) *)

\* LocationNode(location, level): a node with no parent
LocationNode(location, level) ==
  [location |-> location, level |-> level, parents |-> <<>>]

getLevel(g, node) == g.allNodes[node].level

getParents(g, node) == g.allNodes[node].parents

getLocation(g, node) == g.allNodes[node].location

\* target->addParent(source): records source among the parents of target
addParent(g, target, source) ==
  IF InSeq(g.allNodes[target].parents, source) THEN g
  ELSE [g EXCEPT !.allNodes[target].parents = Append(@, source)]

-----------------------------------------------------------------------------
(* LocationGraph *)

EmptyGraph == [allNodes |-> <<>>, sinks |-> <<>>]

isVisited(g, loc) == \E i \in DOMAIN g.allNodes : g.allNodes[i].location = loc

addNewSink(g, candidateSink) ==
  IF isVisited(g, candidateSink) THEN g
  ELSE [allNodes |-> Append(g.allNodes, LocationNode(candidateSink, 0)),
        sinks    |-> Append(g.sinks, Len(g.allNodes) + 1)]

\* the first node of allNodes holding loc, 0 when there is none
findNode(g, loc) ==
  IF isVisited(g, loc)
  THEN CHOOSE i \in DOMAIN g.allNodes :
         /\ g.allNodes[i].location = loc
         /\ \A j \in 1..(i-1) : g.allNodes[j].location # loc
  ELSE 0

\* a guard that lets every edge in
alwaysAllowed(newNode, targetLevel, sourceLevel) == TRUE

\* the guard of the edge insertion ("to prevent cycles in the graph")
edgeAllowed(newNode, targetLevel, sourceLevel) ==
  newNode \/ ~(targetLevel < sourceLevel)

\* a level that puts the new node of the source beside the target
levelOfTarget(targetNodeLevel) == targetNodeLevel

\* the level given to a node created for the source of an edge
levelOfNewSource(targetNodeLevel) == targetNodeLevel + 1

addNewEdge(g, source, target) ==
  LET sourceNode0 == findNode(g, source)
      targetNode0 == findNode(g, target)
      targetNodeLevel == IF targetNode0 # 0 THEN getLevel(g, targetNode0) ELSE 0
      newSource == sourceNode0 = 0 \/ ~InSeq(g.sinks, sourceNode0)
      g1 == IF newSource
            THEN [g EXCEPT !.allNodes =
                     Append(@, LocationNode(source, levelOfNewSource(targetNodeLevel)))]
            ELSE g
      sourceNode == IF newSource THEN Len(g1.allNodes) ELSE sourceNode0
      newTarget == targetNode0 = 0
      g2 == IF newTarget
            THEN [allNodes |-> Append(g1.allNodes, LocationNode(target, targetNodeLevel)),
                  sinks    |-> Append(g1.sinks, Len(g1.allNodes) + 1)]
            ELSE g1
      targetNode == IF newTarget THEN Len(g2.allNodes) ELSE targetNode0
      newNode == newSource \/ newTarget
  IN IF edgeAllowed(newNode, getLevel(g2, targetNode), getLevel(g2, sourceNode))
     THEN addParent(g2, targetNode, sourceNode)
     ELSE g2

\* position in sinks of the first sink holding loc, 0 when there is none
sinkPos(g, loc) ==
  IF \E i \in DOMAIN g.sinks : getLocation(g, g.sinks[i]) = loc
  THEN CHOOSE i \in DOMAIN g.sinks :
         /\ getLocation(g, g.sinks[i]) = loc
         /\ \A j \in 1..(i-1) : getLocation(g, g.sinks[j]) # loc
  ELSE 0

\* a promotion that does not look for the parent among the sinks
appendParents(sinks, parents, k) ==
  sinks \o SubSeq(parents, k, Len(parents))

\* the promotion loop of consumeSinkNode over parents[k..]
RECURSIVE promoteParents(_, _, _)
promoteParents(sinks, parents, k) ==
  IF k > Len(parents) THEN sinks
  ELSE promoteParents(IF InSeq(sinks, parents[k]) THEN sinks
                      ELSE Append(sinks, parents[k]),
                      parents, k + 1)

consumeSinkNode(g, loc) ==
  LET pos == sinkPos(g, loc)
  IN IF pos = 0 THEN g
     ELSE LET parents == getParents(g, g.sinks[pos])
          IN [g EXCEPT !.sinks = promoteParents(RemoveAt(g.sinks, pos), parents, 1)]

getSinkLocations(g) == {getLocation(g, g.sinks[i]) : i \in DOMAIN g.sinks}

getSinksWithLocations(g, locationsList) ==
  {l \in getSinkLocations(g) : InSeq(locationsList, l)}

\* the loop of consumeSinksWithLocations over the set sinkLocs, in order
RECURSIVE consumeAll(_, _, _)
consumeAll(g, locs, k) ==
  IF k > Len(locs) THEN g
  ELSE consumeAll(consumeSinkNode(g, locs[k]), locs, k + 1)

\* one activation of consumeSinksWithLocations, without its recursive call
consumeRound(g, locationsList) ==
  consumeAll(g, SortedSeq(getSinksWithLocations(g, locationsList)), 1)

\* consumeSinksWithLocations: [g |-> the graph on return, returns |-> whether
\* the recursion returns, rounds |-> the activations that consumed].  The
\* nodes never change and the recursion is deterministic in the sinks, so it
\* never returns exactly when a sink vector comes back; seen holds the sink
\* vectors of the enclosing activations.
RECURSIVE consumeRec(_, _, _)
consumeRec(g, locationsList, seen) ==
  IF getSinksWithLocations(g, locationsList) = {}
  THEN [g |-> g, returns |-> TRUE, rounds |-> Cardinality(seen)]
  ELSE IF g.sinks \in seen
  THEN [g |-> g, returns |-> FALSE, rounds |-> Cardinality(seen)]
  ELSE consumeRec(consumeRound(g, locationsList), locationsList,
                  seen \cup {g.sinks})

\* a consumption that stops after one activation instead of at the fixpoint
consumeOnce(g, locationsList) ==
  [g |-> consumeRound(g, locationsList), returns |-> TRUE,
   rounds |-> IF getSinksWithLocations(g, locationsList) = {} THEN 0 ELSE 2]

consumeSinksWithLocations(g, locationsList) == consumeRec(g, locationsList, {})

-----------------------------------------------------------------------------
(* The program values (llvm::Value) seen by the dependency store.  A value  *)
(* is named by a string; the expression the engine hands over with a value  *)
(* is named after it.                                                       *)

\* the argument operands of the call of an external function, the first
\* ones: a loaded value, a literal, an argument without a version, an
\* allocation, a global variable, and so on
CallOperands ==
  [i \in 1..MaxArgs |-> <<"la", "c", "u", "a", "g">>[((i - 1) % 5) + 1]]

\* opcode and operands of the instructions
Instr ==
  [a    |-> [opcode |-> "Alloca", ops |-> <<>>],
   b    |-> [opcode |-> "Alloca", ops |-> <<>>],
   st1  |-> [opcode |-> "Store",  ops |-> <<"c", "a">>],
   ldg  |-> [opcode |-> "Load",   ops |-> <<"g">>],
   la   |-> [opcode |-> "Load",   ops |-> <<"a">>],
   sb   |-> [opcode |-> "Store",  ops |-> <<"la", "b">>],
   sa   |-> [opcode |-> "Store",  ops |-> <<"lb", "a">>],
   st2  |-> [opcode |-> "Store",  ops |-> <<"c", "b">>],
   stg  |-> [opcode |-> "Store",  ops |-> <<"c", "g">>],
   stge |-> [opcode |-> "Store",  ops |-> <<"c", "ge">>],
   lge  |-> [opcode |-> "Load",   ops |-> <<"ge">>],
   stm  |-> [opcode |-> "Store",  ops |-> <<"c", "m">>],
   lm   |-> [opcode |-> "Load",   ops |-> <<"m">>],
   sel  |-> [opcode |-> "Select", ops |-> <<"c", "a", "b">>],
   zx   |-> [opcode |-> "ZExt",   ops |-> <<"la">>],
   zu   |-> [opcode |-> "ZExt",   ops |-> <<"u">>],
   zpu  |-> [opcode |-> "BitCast", ops |-> <<"pu">>],
   zb   |-> [opcode |-> "PtrToInt", ops |-> <<"b">>],
   zc   |-> [opcode |-> "Trunc",  ops |-> <<"call">>],
   zlb  |-> [opcode |-> "SExt",   ops |-> <<"lb">>],
   va   |-> [opcode |-> "VAArg",  ops |-> <<"la">>],
   gepa |-> [opcode |-> "GetElementPtr", ops |-> <<"a", "c">>],
   gepl |-> [opcode |-> "GetElementPtr", ops |-> <<"zx", "c">>],
   gepg |-> [opcode |-> "GetElementPtr", ops |-> <<"g", "c">>],
   gepc |-> [opcode |-> "GetElementPtr", ops |-> <<"c", "k">>],
   lsel |-> [opcode |-> "Load",   ops |-> <<"sel">>],
   phi  |-> [opcode |-> "PHI",    ops |-> <<"la", "c", "u", "lb", "lsel">>],
   bru  |-> [opcode |-> "Br",     ops |-> <<>>],
   brl  |-> [opcode |-> "Br",     ops |-> <<"la">>],
   brk  |-> [opcode |-> "Br",     ops |-> <<"k">>],
   ret  |-> [opcode |-> "Ret",    ops |-> <<"la">>],
   retv |-> [opcode |-> "Ret",    ops |-> <<>>],
   lb   |-> [opcode |-> "Load",   ops |-> <<"b">>],
   add  |-> [opcode |-> "Add",    ops |-> <<"lb", "la">>],
   addu |-> [opcode |-> "Sub",    ops |-> <<"u", "u">>],
   cmpu |-> [opcode |-> "ICmp",   ops |-> <<"u", "la">>],
   cmpc |-> [opcode |-> "ICmp",   ops |-> <<"la", "c">>],
   rng  |-> [opcode |-> "Add",    ops |-> <<"start", "end">>],
   rngr |-> [opcode |-> "Sub",    ops |-> <<"end", "start">>],
   selu |-> [opcode |-> "Select", ops |-> <<"la", "u", "u">>],
   sell |-> [opcode |-> "Select", ops |-> <<"u", "la", "u">>],
   ins  |-> [opcode |-> "InsertElement", ops |-> <<"la", "c">>],
   br   |-> [opcode |-> "Br",     ops |-> <<"add">>],
   call |-> [opcode |-> "Call",   ops |-> <<"la", "c">>],
   ext  |-> [opcode |-> "Call",   ops |-> CallOperands]]

\* the formal parameters of the function that "call" calls
Formals == <<"p0", "p1">>

\* llvm::isa<llvm::Constant>: "c" and "k" are literals, "g" a global
\* variable, "ge" a constant getelementptr expression
Constants == {"c", "k", "g", "ge"}

\* llvm::isa<llvm::GlobalValue>; a global value is of pointer type
GlobalValues == {"g"}

\* constant expressions whose getAsInstruction() is a getelementptr
GEPConstantExprs == {"ge"}

\* arguments of main or __user_main
MainArguments == {"m"}

\* arguments of the function of the path, which no call was bound to
Arguments == {"u", "pu"}

\* the conversions and extractvalue, which share one case of execute
UnaryOpcodes == {"Trunc", "ZExt", "SExt", "PtrToInt", "BitCast", "ExtractValue"}

\* the arguments of klee_range that its instructions name start and end
RangeArguments == {"start", "end"}

\* instructions of the function klee_range
KleeRange == {"rng", "rngr"}

\* the opcodes of the case that Add opens: arithmetic, bitwise, comparison
\* and insertvalue instructions
BinaryOpcodes == {"Add", "Sub", "ICmp", "InsertValue"}

Values ==
  DOMAIN Instr \cup Range(Formals) \cup Constants \cup MainArguments \cup Arguments
    \cup RangeArguments

isConstant(value) == value \in Constants

isGlobalValue(value) == value \in GlobalValues

isPointerTy(value) == value \in GlobalValues \cup {"a", "b", "pu"}

isGEPConstantExpr(value) == value \in GEPConstantExprs

isMainArgument(value) == value \in MainArguments

\* llvm::isa<llvm::Argument>
isArgument(value) ==
  value \in Arguments \cup MainArguments \cup Range(Formals) \cup RangeArguments

-----------------------------------------------------------------------------
(* Maps (std::map): functions whose domain is the set of keys present *)

EmptyMap == <<>>

Has(m, k) == k \in DOMAIN m

Put(m, k, v) == [x \in DOMAIN m \cup {k} |-> IF x = k THEN v ELSE m[x]]

\* an operation's outcome: the store and the returned pointer, list or flag
Ret(st, ret) == [st |-> st, ret |-> ret]

-----------------------------------------------------------------------------
(* Symbolic expressions (ref<Expr>).  A node has a kind, its kids, and by   *)
(* kind: the array and the update list it reads (Read; the update list is   *)
(* a sequence of [index, value], the most recent write first), its value    *)
(* and width (Constant), its offset and width (Extract), its width (ZExt,   *)
(* SExt).                                                                   *)
(* An array (a pointer to a const Array) is named by a string.              *)

\* the null array pointer
NoArray == ""

Node(kind, kids, data) ==
  [kind |-> kind, kids |-> kids, root |-> NoArray, updates |-> <<>>, data |-> data]

\* the null expression reference
NullExpr == Node("null", <<>>, <<>>)

\* Expr::Int64, the width of a 64-bit expression
Int64 == 64

\* ConstantExpr::create(value, width)
ConstantExpr(value, width) == Node("Constant", <<>>, <<value, width>>)

\* constant->getZExtValue()
getZExtValue(constant) == constant.data[1]

ReadExpr(root, updates, index) ==
  [kind |-> "Read", kids |-> <<index>>, root |-> root, updates |-> updates,
   data |-> <<>>]

\* the kinds getShadowExpression rebuilds with createBinaryOfSameKind
BinaryFamily ==
  {"Concat", "Add", "Sub", "Mul", "UDiv", "SDiv", "URem", "SRem", "Not", "And",
   "Or", "Xor", "Shl", "LShr", "AShr", "Eq", "Ne", "Ult", "Ule", "Ugt", "Uge",
   "Slt", "Sle", "Sgt", "Sge"}

\* the number of kids a node of a kind of that family has: Not is unary
numKids(kind) == IF kind = "Not" THEN 1 ELSE 2

\* What the expression library does when it is misused, being asked for a
\* kid a node does not have, handed more kids than a kind takes, or handed
\* a null reference: its assertion fails ("rejects"), or, built without
\* assertions, it goes on ("builds").
LibraryOutcomes == {"rejects", "builds"}

\* expr->getKid(i): a node of one kid hands it over whatever i is
getKid(expr, i) ==
  IF i < Len(expr.kids) THEN expr.kids[i + 1] ELSE expr.kids[Len(expr.kids)]

\* Expr::createFromKind(kind, exprs): the node over the kids the kind takes,
\* or no node (ok = FALSE)
createFromKind(kind, exprs, lib) ==
  IF Len(exprs) # numKids(kind) /\ lib = "rejects"
  THEN [ok |-> FALSE, expr |-> NullExpr]
  ELSE [ok |-> TRUE, expr |-> Node(kind, SubSeq(exprs, 1, numKids(kind)), <<>>)]

createBinaryOfSameKind(originalExpr, newLhs, newRhs, lib) ==
  createFromKind(originalExpr.kind, <<newLhs, newRhs>>, lib)

-----------------------------------------------------------------------------
(* ShadowArray.  env = [replacements, shadowArray, aborted]: the set the   *)
(* caller hands over, the static map of shadow arrays, and whether an       *)
(* assertion has failed.                                                    *)

addShadowArrayMap(map, source, target) == Put(map, source, target)

\* shadowArray[root]: std::map::operator[] enters a null array for a root
\* that has no entry
lookupShadowArray(map, root) ==
  IF Has(map, root) THEN map ELSE Put(map, root, NoArray)

RECURSIVE getShadowExpression(_, _, _)
RECURSIVE getShadowUpdate(_, _, _)
getShadowUpdate(source, env, lib) ==
  IF source = <<>> THEN Ret(env, <<>>)
  ELSE LET next == getShadowUpdate(Tail(source), env, lib)
           index == getShadowExpression(Head(source).index, next.st, lib)
           value == getShadowExpression(Head(source).value, index.st, lib)
       IN Ret(value.st, <<[index |-> index.ret, value |-> value.ret]>> \o next.ret)

\* the shadows of kids[k..], in order
RECURSIVE shadowKids(_, _, _, _)
shadowKids(kids, k, env, lib) ==
  IF k > Len(kids) THEN Ret(env, <<>>)
  ELSE LET kid == getShadowExpression(kids[k], env, lib)
           rest == shadowKids(kids, k + 1, kid.st, lib)
       IN Ret(rest.st, <<kid.ret>> \o rest.ret)

getShadowExpression(expr, env, lib) ==
  IF env.aborted THEN Ret(env, NullExpr)
  ELSE CASE expr.kind = "Read" ->
         LET map == lookupShadowArray(env.shadowArray, expr.root)
             replacementArray == map[expr.root]
             e1 == [env EXCEPT !.shadowArray = map,
                               !.replacements = @ \cup {replacementArray}]
             updates == getShadowUpdate(expr.updates, e1, lib)
             index == getShadowExpression(expr.kids[1], updates.st, lib)
         IN Ret(index.st, ReadExpr(replacementArray, updates.ret, index.ret))
    [] expr.kind = "Constant" -> Ret(env, expr)
    [] expr.kind = "Select" ->
         LET kids == shadowKids(expr.kids, 1, env, lib)
         IN Ret(kids.st, Node("Select", kids.ret, <<>>))
    [] expr.kind \in {"Extract", "ZExt", "SExt"} ->
         LET kid == getShadowExpression(getKid(expr, 0), env, lib)
         IN Ret(kid.st, Node(expr.kind, <<kid.ret>>, expr.data))
    [] expr.kind \in BinaryFamily ->
         LET lhs == getShadowExpression(getKid(expr, 0), env, lib)
             rhs == getShadowExpression(getKid(expr, 1), lhs.st, lib)
             made == createBinaryOfSameKind(expr, lhs.ret, rhs.ret, lib)
         IN IF made.ok THEN Ret(rhs.st, made.expr)
            ELSE Ret([rhs.st EXCEPT !.aborted = TRUE], NullExpr)
    [] expr.kind = "NotOptimized" ->
         LET kid == getShadowExpression(getKid(expr, 0), env, lib)
         IN Ret(kid.st, Node("NotOptimized", <<kid.ret>>, <<>>))
    [] OTHER -> Ret([env EXCEPT !.aborted = TRUE], NullExpr)

-----------------------------------------------------------------------------
(* MemoryLocation: a location with an offset.  loc = [core, site, address,  *)
(* offset], address and offset being expressions.                           *)

\* The number of bits of the unsigned integers offsets are added in.  The
\* program adds in uint64_t; the model adds modulo 2^WordBits.
WordBits == 3

WordModulus == 2 ^ WordBits

\* AddExpr::create(l, r) where the two are not both constants; l may be a
\* null reference
createAdd(l, r, lib) ==
  IF l = NullExpr /\ lib = "rejects"
  THEN [ok |-> FALSE, expr |-> NullExpr]
  ELSE [ok |-> TRUE, expr |-> Node("Add", <<l, r>>, <<>>)]

\* a constructor that adds the two offsets symbolically whatever they are
deriveWithoutFolding(loc, _offset, lib) ==
  [ok |-> TRUE,
   loc |-> [core |-> loc.core, site |-> loc.site, address |-> loc.address,
            offset |-> Node("Add", <<loc.offset, _offset>>, <<>>)]]

\* MemoryLocation(loc, _offset): the new location, or none (ok = FALSE).
\* The member offset of the new location is a null reference until the
\* body assigns it.
deriveLocation(loc, _offset, lib) ==
  LET offset == NullExpr
      derived == [core |-> loc.core, site |-> loc.site, address |-> loc.address,
                  offset |-> offset]
  IN IF loc.offset.kind = "Constant" /\ _offset.kind = "Constant"
     THEN LET newConst == (getZExtValue(loc.offset) + getZExtValue(_offset))
                            % WordModulus
          IN [ok |-> TRUE,
              loc |-> [derived EXCEPT !.offset = ConstantExpr(newConst, Int64)]]
     ELSE LET sum == createAdd(offset, _offset, lib)
          IN [ok |-> sum.ok, loc |-> [derived EXCEPT !.offset = sum.expr]]

-----------------------------------------------------------------------------
(* Indentation of the printed output *)

appendTab(prefix) == prefix \o "        "

\* the loop of makeTabs from i on
RECURSIVE makeTabsLoop(_, _, _)
makeTabsLoop(tabsString, i, paddingAmount) ==
  IF i < paddingAmount
  THEN makeTabsLoop(tabsString \o appendTab(tabsString), i + 1, paddingAmount)
  ELSE tabsString

makeTabs(paddingAmount) == makeTabsLoop("", 0, paddingAmount)

-----------------------------------------------------------------------------
(* The dependency store.  st = [vvals, mlocs, frames, aborted, hung]:       *)
(*   vvals   the versioned values allocated so far, by pointer              *)
(*   mlocs   the memory locations allocated so far, by pointer              *)
(*   frames  the chain of Dependency objects; the parent of frame f is      *)
(*           frame f - 1, and frame 1 has none                              *)
(*   aborted an assertion has failed                                        *)
(*   hung    consumeSinksWithLocations never returned                       *)

EmptyFrame ==
  [valuesMap              |-> [v \in Values |-> <<>>],
   versionedLocationsList |-> <<>>,
   equalityMap            |-> EmptyMap,
   storesMap              |-> EmptyMap,
   storageOfMap           |-> EmptyMap,
   flowsToMap             |-> EmptyMap,
   coreLocations          |-> {},
   argumentValuesList     |-> <<>>]

parentDependency(f) == f - 1

Back(s) == s[Len(s)]

\* new VersionedValue(value, valueExpr), not registered in any frame
newVersionedValue(st, value, valueExpr) ==
  Ret([st EXCEPT !.vvals = Append(@, [value |-> value, expr |-> valueExpr,
                                      core |-> FALSE])],
      Len(st.vvals) + 1)

getNewVersionedValue(st, f, value, valueExpr) ==
  LET r == newVersionedValue(st, value, valueExpr)
  IN Ret([r.st EXCEPT !.frames[f].valuesMap[value] = Append(@, r.ret)], r.ret)

getInitialLocation(st, f, location, address) ==
  LET ret == Len(st.mlocs) + 1
  IN Ret([st EXCEPT !.mlocs = Append(@, [site |-> location, address |-> address]),
                    !.frames[f].versionedLocationsList = Append(@, ret)],
         ret)

\* MemoryLocation::hasAddress (declared in Dependency.h)
hasAddress(st, loc, site, address) ==
  st.mlocs[loc].site = site /\ st.mlocs[loc].address = address

RECURSIVE getLatestLocation(_, _, _, _)
getLatestLocation(st, f, location, address) ==
  LET list == st.frames[f].versionedLocationsList
      hits == {i \in DOMAIN list : hasAddress(st, list[i], location, address)}
  IN IF hits # {} THEN list[CHOOSE i \in hits : \A j \in hits : j <= i]
     ELSE IF parentDependency(f) # 0
     THEN getLatestLocation(st, parentDependency(f), location, address)
     ELSE 0

\* a location version that is always a new location
alwaysInitialLocation(st, f, location, address) ==
  getInitialLocation(st, f, location, address)

getNewLocationVersion(st, f, location, address) ==
  LET ret == getLatestLocation(st, f, location, address)
  IN IF ret # 0 THEN Ret(st, ret)
     ELSE getInitialLocation(st, f, location, address)

addPointerEquality(st, f, value, location) ==
  IF Has(st.frames[f].equalityMap, value)
  THEN [st EXCEPT !.frames[f].equalityMap[value] = Append(@, location)]
  ELSE [st EXCEPT !.frames[f].equalityMap = Put(@, value, <<location>>)]

\* std::map::insert, which keeps the value of a location already stored to
insertStoresMap(m, location, value) ==
  IF Has(m, location) THEN m ELSE Put(m, location, value)

\* the store-map half of updateStore
updateStoresMap(m, location, value) == Put(m, location, value)

updateStore(st, f, location, value) ==
  LET s1 == [st EXCEPT !.frames[f].storesMap = updateStoresMap(@, location, value)]
  IN IF Has(s1.frames[f].storageOfMap, value)
     THEN [s1 EXCEPT !.frames[f].storageOfMap[value] = Append(@, location)]
     ELSE [s1 EXCEPT !.frames[f].storageOfMap = Put(@, value, <<location>>)]

\* std::map::insert keeps the entry of a key already present
addDependencyViaLocation(st, f, source, target, via) ==
  IF Has(st.frames[f].flowsToMap, target)
  THEN IF Has(st.frames[f].flowsToMap[target], source) THEN st
       ELSE [st EXCEPT !.frames[f].flowsToMap[target] = Put(@, source, via)]
  ELSE [st EXCEPT !.frames[f].flowsToMap = Put(@, target, Put(EmptyMap, source, via))]

addDependency(st, f, source, target) ==
  addDependencyViaLocation(st, f, source, target, 0)

RECURSIVE getLatestValue(_, _, _, _)
getLatestValue(st, f, value, valueExpr) ==
  IF isGEPConstantExpr(value)
  THEN LET r == getNewVersionedValue(st, f, value, valueExpr)
           l == getInitialLocation(r.st, f, value, valueExpr)
       IN Ret(addPointerEquality(l.st, f, r.ret, l.ret), r.ret)
  ELSE IF isConstant(value) /\ ~isGlobalValue(value)
  THEN getNewVersionedValue(st, f, value, valueExpr)
  ELSE IF st.frames[f].valuesMap[value] # <<>>
  THEN Ret(st, Back(st.frames[f].valuesMap[value]))
  ELSE LET r == IF parentDependency(f) # 0
                THEN getLatestValue(st, parentDependency(f), value, valueExpr)
                ELSE Ret(st, 0)
       IN IF r.ret = 0 /\ isGlobalValue(value)
          THEN LET n == getNewVersionedValue(r.st, f, value, valueExpr)
               IN IF isPointerTy(value)
                  THEN LET l == getInitialLocation(n.st, f, value, valueExpr)
                       IN Ret(addPointerEquality(l.st, f, n.ret, l.ret), n.ret)
                  ELSE n
          ELSE r

\* a lookup that asks the ancestors before the frame itself
RECURSIVE getAncestralValueNoConstantCheck(_, _, _)
getAncestralValueNoConstantCheck(st, f, value) ==
  LET above == IF parentDependency(f) # 0
               THEN getAncestralValueNoConstantCheck(st, parentDependency(f), value)
               ELSE 0
  IN IF above # 0 THEN above
     ELSE IF st.frames[f].valuesMap[value] # <<>>
     THEN Back(st.frames[f].valuesMap[value])
     ELSE 0

RECURSIVE getLatestValueNoConstantCheck(_, _, _)
getLatestValueNoConstantCheck(st, f, value) ==
  IF st.frames[f].valuesMap[value] # <<>>
  THEN Back(st.frames[f].valuesMap[value])
  ELSE IF parentDependency(f) # 0
  THEN getLatestValueNoConstantCheck(st, parentDependency(f), value)
  ELSE 0

RECURSIVE resolveLocation(_, _, _)
resolveLocation(st, f, val) ==
  IF val = 0 THEN Ret(st, 0)
  ELSE IF Has(st.frames[f].equalityMap, val)
  THEN Ret(st, Back(st.frames[f].equalityMap[val]))
  ELSE IF parentDependency(f) # 0
  THEN resolveLocation(st, parentDependency(f), val)
  ELSE IF isMainArgument(st.vvals[val].value)
  THEN LET vArg == st.vvals[val].value
           addressExpr == st.vvals[val].expr
           l == getInitialLocation(st, f, vArg, addressExpr)
           n == getNewVersionedValue(l.st, f, vArg, addressExpr)
       IN Ret(addPointerEquality(n.st, f, n.ret, l.ret), l.ret)
  ELSE Ret(st, 0)

RECURSIVE stores(_, _, _)
stores(st, f, loc) ==
  IF Has(st.frames[f].storesMap, loc) THEN <<st.frames[f].storesMap[loc]>>
  ELSE IF parentDependency(f) # 0 THEN stores(st, parentDependency(f), loc)
  ELSE <<>>

-----------------------------------------------------------------------------
(* Flow queries *)

\* std::sort of a vector of pointers (ascending)
RECURSIVE insertSorted(_, _)
insertSorted(s, x) ==
  IF s = <<>> THEN <<x>>
  ELSE IF x <= Head(s) THEN <<x>> \o s
  ELSE <<Head(s)>> \o insertSorted(Tail(s), x)

RECURSIVE sortSeq(_)
sortSeq(s) == IF s = <<>> THEN <<>> ELSE insertSorted(sortSeq(Tail(s)), Head(s))

\* the compaction loop of std::unique from position k on, dest being the
\* last position written
RECURSIVE uniqueLoop(_, _, _)
uniqueLoop(v, dest, k) ==
  IF k > Len(v) THEN v
  ELSE IF v[dest] # v[k]
  THEN uniqueLoop([v EXCEPT ![dest + 1] = v[k]], dest + 1, k + 1)
  ELSE uniqueLoop(v, dest, k + 1)

\* std::unique(ret.begin(), ret.end()) with its result dropped: the vector
\* keeps its length, the distinct elements are moved to the front
uniqueInPlace(v) ==
  LET pairs == {i \in 1..(Len(v) - 1) : v[i] = v[i + 1]}
      first == CHOOSE i \in pairs : \A j \in pairs : i <= j
  IN IF pairs = {} THEN v ELSE uniqueLoop(v, first, first + 2)

directLocalFlowSources(st, f, target) ==
  IF Has(st.frames[f].flowsToMap, target)
  THEN SortedSeq(DOMAIN st.frames[f].flowsToMap[target])
  ELSE <<>>

RECURSIVE directFlowSources(_, _, _)
directFlowSources(st, f, target) ==
  IF parentDependency(f) # 0
  THEN directFlowSources(st, parentDependency(f), target)
         \o directLocalFlowSources(st, f, target)
  ELSE directLocalFlowSources(st, f, target)

RECURSIVE allFlowSources(_, _, _)
RECURSIVE allFlowSourcesLoop(_, _, _, _, _)
allFlowSourcesLoop(st, f, stepSources, k, ret) ==
  IF k > Len(stepSources) THEN ret
  ELSE allFlowSourcesLoop(st, f, stepSources, k + 1,
                          allFlowSources(st, f, stepSources[k]) \o ret)

allFlowSources(st, f, target) ==
  LET stepSources == directFlowSources(st, f, target)
      ret == allFlowSourcesLoop(st, f, stepSources, 1, stepSources)
  IN uniqueInPlace(sortSeq(Append(ret, target)))

RECURSIVE allFlowSourcesEnds(_, _, _)
RECURSIVE allFlowSourcesEndsLoop(_, _, _, _, _)
allFlowSourcesEndsLoop(st, f, stepSources, k, ret) ==
  IF k > Len(stepSources) THEN ret
  ELSE LET src == allFlowSourcesEnds(st, f, stepSources[k])
       IN allFlowSourcesEndsLoop(st, f, stepSources, k + 1,
            IF src = <<>> THEN Append(ret, stepSources[k]) ELSE src \o ret)

allFlowSourcesEnds(st, f, target) ==
  LET stepSources == directFlowSources(st, f, target)
  IN IF stepSources = <<>> THEN <<target>>
     ELSE uniqueInPlace(sortSeq(allFlowSourcesEndsLoop(st, f, stepSources, 1, <<>>)))

\* the loop of resolveLocationTransitively over valueSources[k..]
RECURSIVE resolveSourcesLoop(_, _, _, _, _)
resolveSourcesLoop(st, f, valueSources, k, ret) ==
  IF k > Len(valueSources) THEN Ret(st, ret)
  ELSE LET r == resolveLocation(st, f, valueSources[k])
       IN resolveSourcesLoop(r.st, f, valueSources, k + 1,
                             IF r.ret # 0 THEN Append(ret, r.ret) ELSE ret)

resolveLocationTransitively(st, f, value) ==
  IF value = 0 THEN Ret(st, <<>>)
  ELSE LET single == resolveLocation(st, f, value)
       IN IF single.ret # 0 THEN Ret(single.st, <<single.ret>>)
          ELSE resolveSourcesLoop(single.st, f,
                                  allFlowSourcesEnds(single.st, f, value), 1, <<>>)

-----------------------------------------------------------------------------
(* Location sources and the location graph of a value *)

\* std::map::insert of a range: the entries of keys already present stay
InsertAll(m, extra) ==
  [k \in DOMAIN m \cup DOMAIN extra |-> IF k \in DOMAIN m THEN m[k] ELSE extra[k]]

Erase(m, keys) == [k \in DOMAIN m \ keys |-> m[k]]

RECURSIVE directLocalLocationSources(_, _, _)
RECURSIVE localSourcesLoop(_, _, _, _, _)
\* the loop of directLocalLocationSources over the flow sources keys[k..]
localSourcesLoop(st, f, target, keys, ret) ==
  IF keys = <<>> THEN ret
  ELSE LET source == Head(keys)
           via == st.frames[f].flowsToMap[target][source]
           extra == directLocalLocationSources(st, f, source)
       IN localSourcesLoop(st, f, target, Tail(keys),
            IF via = 0
            THEN IF DOMAIN extra # {} THEN InsertAll(ret, extra)
                 ELSE Put(ret, source, 0)
            ELSE Put(ret, source, via))

directLocalLocationSources(st, f, target) ==
  LET ret == IF Has(st.frames[f].flowsToMap, target)
             THEN localSourcesLoop(st, f, target,
                    SortedSeq(DOMAIN st.frames[f].flowsToMap[target]), EmptyMap)
             ELSE EmptyMap
  IN IF DOMAIN ret = {}
     THEN IF Has(st.frames[f].storageOfMap, target)
          THEN Put(EmptyMap, 0, Back(st.frames[f].storageOfMap[target]))
          ELSE EmptyMap
     ELSE ret

RECURSIVE directLocationSources(_, _, _)
RECURSIVE ancestralLoop(_, _, _, _)
\* the erasing loop of directLocationSources: tmp collects what the parent
\* has for the keys that have no location here
ancestralLoop(st, f, keys, tmp) ==
  IF keys = <<>> THEN tmp
  ELSE ancestralLoop(st, f, Tail(keys),
         IF parentDependency(f) # 0 /\ Head(keys) # 0
         THEN InsertAll(tmp, directLocationSources(st, parentDependency(f), Head(keys)))
         ELSE tmp)

directLocationSources(st, f, target) ==
  LET ret == directLocalLocationSources(st, f, target)
      nulls == {k \in DOMAIN ret : ret[k] = 0}
  IN IF DOMAIN ret = {} /\ parentDependency(f) # 0
     THEN directLocationSources(st, parentDependency(f), target)
     ELSE InsertAll(Erase(ret, nulls), ancestralLoop(st, f, SortedSeq(nulls), EmptyMap))

RECURSIVE recursivelyBuildLocationGraph(_, _, _, _, _, _)
RECURSIVE recursiveEdgesLoop(_, _, _, _, _, _, _)
\* the loop of recursivelyBuildLocationGraph over the entries keys[..] of
\* sourceEdges
recursiveEdgesLoop(g, st, f, sourceEdges, keys, target, parentTargets) ==
  IF keys = <<>> THEN g
  ELSE LET loc == sourceEdges[Head(keys)]
       IN IF loc # target /\ loc \notin parentTargets
          THEN recursiveEdgesLoop(
                 recursivelyBuildLocationGraph(addNewEdge(g, loc, target), st, f,
                                               Head(keys), loc,
                                               parentTargets \cup {target}),
                 st, f, sourceEdges, Tail(keys), target, parentTargets \cup {target})
          ELSE recursiveEdgesLoop(g, st, f, sourceEdges, Tail(keys), target,
                                  parentTargets)

recursivelyBuildLocationGraph(g, st, f, source, target, parentTargets) ==
  IF source = 0 THEN g
  ELSE LET sourceEdges == directLocationSources(st, f, source)
       IN recursiveEdgesLoop(g, st, f, sourceEdges, SortedSeq(DOMAIN sourceEdges),
                             target, parentTargets)

\* the loop of buildLocationGraph over the entries keys[..] of sourceEdges
RECURSIVE buildLoop(_, _, _, _, _)
buildLoop(g, st, f, sourceEdges, keys) ==
  IF keys = <<>> THEN g
  ELSE LET loc == sourceEdges[Head(keys)]
       IN buildLoop(recursivelyBuildLocationGraph(addNewSink(g, loc), st, f,
                                                  Head(keys), loc, {}),
                    st, f, sourceEdges, Tail(keys))

buildLocationGraph(g, st, f, target) ==
  LET sourceEdges == directLocationSources(st, f, target)
  IN buildLoop(g, st, f, sourceEdges, SortedSeq(DOMAIN sourceEdges))

\* a marking that flags the elements of the vector and no other value
flagOnly(st, values) ==
  [st EXCEPT !.vvals = [v \in DOMAIN @ |-> [@[v] EXCEPT !.core = InSeq(values, v)]]]

\* VersionedValue::setAsCore on every element of a vector
setAsCore(st, values) ==
  [st EXCEPT !.vvals = [v \in DOMAIN @ |->
                          IF InSeq(values, v) THEN [@[v] EXCEPT !.core = TRUE]
                          ELSE @[v]]]

\* an operation working on a graph: the store and the graph
WithGraph(st, g) == [st |-> st, g |-> g]

\* markAllValues(LocationGraph *, VersionedValue *)
markAllValues(st, f, g, value) ==
  WithGraph(setAsCore(st, allFlowSources(st, f, value)),
            buildLocationGraph(g, st, f, value))

\* markAllValues(LocationGraph *, llvm::Value *)
markAllValuesOf(st, f, g, val) ==
  LET value == getLatestValueNoConstantCheck(st, f, val)
  IN IF value = 0
     THEN IF isConstant(val) THEN WithGraph(st, g)
          ELSE WithGraph([st EXCEPT !.aborted = TRUE], g)
     ELSE markAllValues(st, f, g, value)

RECURSIVE computeCoreLocations(_, _, _)
computeCoreLocations(st, f, g) ==
  LET s1 == [st EXCEPT !.frames[f].coreLocations = @ \cup getSinkLocations(g)]
  IN IF parentDependency(f) # 0
     THEN LET r == consumeSinksWithLocations(g, s1.frames[f].versionedLocationsList)
          IN IF r.returns THEN computeCoreLocations(s1, parentDependency(f), r.g)
             ELSE [s1 EXCEPT !.hung = TRUE]
     ELSE s1

-----------------------------------------------------------------------------
(* Instruction handlers *)

\* the loop of populateArgumentValuesList, from argument i down to the first
RECURSIVE populateLoop(_, _, _, _, _)
populateLoop(st, f, site, i, argumentValuesList) ==
  IF i = 0 THEN Ret(st, argumentValuesList)
  ELSE LET argOperand == Instr[site].ops[i]
           latestValue == getLatestValue(st, f, argOperand, argOperand)
           fresh == newVersionedValue(latestValue.st, argOperand, argOperand)
       IN IF latestValue.ret # 0
          THEN populateLoop(latestValue.st, f, site, i - 1,
                            Append(argumentValuesList, latestValue.ret))
          ELSE populateLoop(fresh.st, f, site, i - 1,
                            Append(argumentValuesList, fresh.ret))

\* a list filled from the last argument down and read from its front
populateReversed(st, f, site) ==
  LET r == populateLoop(st, f, site, Len(Formals), <<>>)
  IN Ret(r.st, [k \in DOMAIN r.ret |-> r.ret[Len(r.ret) + 1 - k]])

populateArgumentValuesList(st, f, site) ==
  populateLoop(st, f, site, Len(Formals), <<>>)

\* the loop of bindCallArguments over the formal parameters from the k-th on
RECURSIVE bindLoop(_, _, _)
bindLoop(st, f, k) ==
  IF k > Len(Formals) THEN st
  ELSE LET back == Back(st.frames[f].argumentValuesList)
           n == getNewVersionedValue(st, f, Formals[k], st.vvals[back].expr)
           s1 == IF back # 0 THEN addDependency(n.st, f, back, n.ret) ELSE st
       IN bindLoop([s1 EXCEPT !.frames[f].argumentValuesList =
                                 SubSeq(@, 1, Len(@) - 1)],
                   f, k + 1)

bindCallArguments(st, f, i) ==
  IF Instr[i].opcode # "Call" THEN st
  ELSE LET r == populateArgumentValuesList(st, f, i)
       IN bindLoop([r.st EXCEPT !.frames[f].argumentValuesList = r.ret], f, 1)

\* the loop of buildLoadDependency over addressLocList[k..]
RECURSIVE loadLoop(_, _, _, _, _, _)
loadLoop(st, f, addressLocList, k, value, valueExpr) ==
  IF k > Len(addressLocList) THEN st
  ELSE LET loc == addressLocList[k]
           storedValue == stores(st, f, loc)
           n == getNewVersionedValue(st, f, value, valueExpr)
       IN loadLoop(IF storedValue = <<>>
                   THEN updateStore(n.st, f, loc, n.ret)
                   ELSE addDependencyViaLocation(n.st, f, storedValue[1], n.ret, loc),
                   f, addressLocList, k + 1, value, valueExpr)

buildLoadDependency(st, f, address, addressExpr, value, valueExpr) ==
  LET addressValue == getLatestValue(st, f, address, addressExpr)
      addressLocList == resolveLocationTransitively(addressValue.st, f, addressValue.ret)
  IN IF addressValue.ret = 0 THEN Ret(addressValue.st, FALSE)
     ELSE IF addressLocList.ret = <<>>
     THEN Ret([addressLocList.st EXCEPT !.aborted = TRUE], FALSE)
     ELSE Ret(loadLoop(addressLocList.st, f, addressLocList.ret, 1, value, valueExpr),
              TRUE)

\* updateStore(getInitialLocation(site, address), getNewVersionedValue(instr, valueExpr))
storeToInitialLocation(st, f, site, address, instr, valueExpr) ==
  LET loc == getInitialLocation(st, f, site, address)
      n == getNewVersionedValue(loc.st, f, instr, valueExpr)
  IN updateStore(n.st, f, loc.ret, n.ret)

\* execute, case Alloca
executeAlloca(st, f, instr) ==
  LET n == getNewVersionedValue(st, f, instr, instr)
      loc == getInitialLocation(n.st, f, instr, instr)
  IN addPointerEquality(loc.st, f, n.ret, loc.ret)

\* execute, case Load, from the call of buildLoadDependency on
loadTail(st, f, instr, op0) ==
  LET b == buildLoadDependency(st, f, op0, op0, instr, instr)
  IN IF b.st.aborted THEN b.st
     ELSE IF ~b.ret THEN storeToInitialLocation(b.st, f, op0, op0, instr, instr)
     ELSE b.st

\* execute, case Load
executeLoad(st, f, instr) ==
  LET op0 == Instr[instr].ops[1]
      addressValue == getLatestValue(st, f, op0, op0)
      locList == resolveLocationTransitively(addressValue.st, f, addressValue.ret)
  IN IF addressValue.ret # 0
     THEN IF locList.ret = <<>>
          THEN LET loc == getInitialLocation(locList.st, f, op0, op0)
                   s1 == addPointerEquality(loc.st, f, addressValue.ret, loc.ret)
                   n == getNewVersionedValue(s1, f, instr, instr)
               IN updateStore(n.st, f, loc.ret, n.ret)
          ELSE IF Len(locList.ret) = 1
                  /\ isMainArgument(locList.st.mlocs[locList.ret[1]].site)
          THEN LET n == getNewVersionedValue(locList.st, f, instr, instr)
                   loc == getNewLocationVersion(n.st, f, instr, op0)
               IN addPointerEquality(loc.st, f, n.ret, loc.ret)
          ELSE loadTail(locList.st, f, instr, op0)
     ELSE IF isGlobalValue(op0)
     THEN LET n == getNewVersionedValue(addressValue.st, f, op0, op0)
              loc == getInitialLocation(n.st, f, op0, op0)
          IN loadTail(addPointerEquality(loc.st, f, n.ret, loc.ret), f, instr, op0)
     ELSE loadTail(addressValue.st, f, instr, op0)

\* the loop of execute, case Store, over addressList[k..]
RECURSIVE storeLoop(_, _, _, _, _, _, _)
storeLoop(st, f, addressList, k, dataArg, valueExpr, address) ==
  IF k > Len(addressList) THEN st
  ELSE LET it == st.mlocs[addressList[k]]
           loc == getLatestLocation(st, f, it.site, it.address)
           init == getInitialLocation(st, f, it.site, address)
           locValue == getNewVersionedValue(init.st, f, it.site, valueExpr)
       IN storeLoop(IF loc # 0 THEN updateStore(st, f, loc, dataArg)
                    ELSE updateStore(addPointerEquality(locValue.st, f, locValue.ret,
                                                        init.ret),
                                     f, init.ret, dataArg),
                    f, addressList, k + 1, dataArg, valueExpr, address)

\* execute, case Store
executeStore(st, f, instr) ==
  LET op0 == Instr[instr].ops[1]
      op1 == Instr[instr].ops[2]
      dataArg == getLatestValue(st, f, op0, op0)
      addressValue == getLatestValue(dataArg.st, f, op1, op1)
      addressList == resolveLocationTransitively(addressValue.st, f, addressValue.ret)
      fresh == IF dataArg.ret = 0
               THEN getNewVersionedValue(addressList.st, f, op0, op0)
               ELSE Ret(addressList.st, dataArg.ret)
  IN storeLoop(fresh.st, f, addressList.ret, 1, fresh.ret, op0, op1)

\* execute, the binary operators (Add ... InsertValue)
\* an operand of an instruction of klee_range that was not found and has
\* the name the fallback asks for is registered anew
registerNamed(found, f, instr, operand, name) ==
  IF found.ret = 0 /\ instr \in KleeRange /\ operand = name
  THEN getNewVersionedValue(found.st, f, operand, operand)
  ELSE found

executeBinary(st, f, instr) ==
  LET found1 == getLatestValue(st, f, Instr[instr].ops[1], Instr[instr].ops[1])
      found2 == getLatestValue(found1.st, f, Instr[instr].ops[2], Instr[instr].ops[2])
      op1 == registerNamed(Ret(found2.st, found1.ret), f, instr,
                           Instr[instr].ops[1], "start")
      op2 == registerNamed(Ret(op1.st, found2.ret), f, instr,
                           Instr[instr].ops[2], "end")
      newValue == getNewVersionedValue(op2.st, f, instr, instr)
      s1 == IF op1.ret # 0 THEN addDependency(newValue.st, f, op1.ret, newValue.ret)
            ELSE op2.st
  IN IF op2.ret = 0 THEN s1
     ELSE IF op1.ret # 0 THEN addDependency(s1, f, op2.ret, newValue.ret)
     ELSE addDependency(newValue.st, f, op2.ret, newValue.ret)

\* llvm::isa<llvm::CallInst>
isCallInst(value) == value \in DOMAIN Instr /\ Instr[value].opcode = "Call"

\* addDependency(arg, returnValue) for two new versions, of the operand and
\* of the instruction
dependOnNewOperand(st, f, instr, op0) ==
  LET arg == getNewVersionedValue(st, f, op0, instr)
      returnValue == getNewVersionedValue(arg.st, f, instr, instr)
  IN addDependency(returnValue.st, f, arg.ret, returnValue.ret)

\* the result of a conversion aliased to a new location of the operand
aliasToOperand(st, f, instr, op0) ==
  LET n == getNewVersionedValue(st, f, instr, instr)
      loc == getInitialLocation(n.st, f, op0, instr)
  IN addPointerEquality(loc.st, f, n.ret, loc.ret)

\* fallbacks that ask whether the operand is an argument first
argumentFirst(st, f, instr, op0, symbolicExecutionError) ==
  IF isArgument(op0) THEN dependOnNewOperand(st, f, instr, op0)
  ELSE IF isPointerTy(op0) THEN aliasToOperand(st, f, instr, op0)
  ELSE IF isCallInst(op0) THEN getNewVersionedValue(st, f, op0, instr).st
  ELSE IF symbolicExecutionError THEN dependOnNewOperand(st, f, instr, op0)
  ELSE [st EXCEPT !.aborted = TRUE]

\* the fallbacks of a conversion whose operand has no version and is no
\* constant
operandNotFound(st, f, instr, op0, symbolicExecutionError) ==
  IF isPointerTy(op0) THEN aliasToOperand(st, f, instr, op0)
  ELSE IF isArgument(op0) THEN dependOnNewOperand(st, f, instr, op0)
  ELSE IF isCallInst(op0) THEN getNewVersionedValue(st, f, op0, instr).st
  ELSE IF symbolicExecutionError THEN dependOnNewOperand(st, f, instr, op0)
  ELSE [st EXCEPT !.aborted = TRUE]

\* execute, the unary instructions (Trunc ... ExtractValue)
executeUnary(st, f, instr, symbolicExecutionError) ==
  LET op0 == Instr[instr].ops[1]
      val == getLatestValue(st, f, op0, instr)
  IN IF val.ret # 0
     THEN LET n == getNewVersionedValue(val.st, f, instr, instr)
          IN addDependency(n.st, f, val.ret, n.ret)
     ELSE IF isConstant(op0) THEN val.st
     ELSE operandNotFound(val.st, f, instr, op0, symbolicExecutionError)

\* a cast whose result depends on itself
castOntoItself(st, f, instr) ==
  LET n == getNewVersionedValue(st, f, instr, instr)
  IN addDependency(n.st, f, n.ret, n.ret)

\* the same for a state without a symbolic execution error
executeCast(st, f, instr) == executeUnary(st, f, instr, FALSE)

\* the loop of execute, case GetElementPtr, over locList[k..]
RECURSIVE gepLocationsLoop(_, _, _, _, _, _)
gepLocationsLoop(st, f, locList, k, newValue, valueExpr) ==
  IF k > Len(locList) THEN st
  ELSE LET site == st.mlocs[locList[k]].site
           actualLoc == getNewLocationVersion(st, f, site, valueExpr)
       IN gepLocationsLoop(addPointerEquality(actualLoc.st, f, newValue, actualLoc.ret),
                           f, locList, k + 1, newValue, valueExpr)

\* the loop of execute, case GetElementPtr, over directSources[k..]
RECURSIVE gepSourcesLoop(_, _, _, _, _)
gepSourcesLoop(st, f, directSources, k, newValue) ==
  IF k > Len(directSources) THEN st
  ELSE gepSourcesLoop(IF directSources[k] # 0
                      THEN addDependency(st, f, directSources[k], newValue)
                      ELSE st,
                      f, directSources, k + 1, newValue)

\* execute, case GetElementPtr, of an instruction that is inbounds
executeGetElementPtr(st, f, instr) ==
  LET op0 == Instr[instr].ops[1]
      found == getLatestValue(st, f, op0, op0)
      addressValue == IF found.ret # 0 THEN found
                      ELSE getNewVersionedValue(found.st, f, op0, op0)
      locList == resolveLocationTransitively(addressValue.st, f, addressValue.ret)
      newValue == getNewVersionedValue(locList.st, f, instr, instr)
      directSources == directFlowSources(locList.st, f, addressValue.ret)
  IN IF isConstant(op0)
     THEN LET loc == getNewLocationVersion(st, f, op0, instr)
              n == getNewVersionedValue(loc.st, f, instr, instr)
          IN addPointerEquality(n.st, f, n.ret, loc.ret)
     ELSE IF locList.ret # <<>>
     THEN gepLocationsLoop(newValue.st, f, locList.ret, 1, newValue.ret, instr)
     ELSE IF directSources # <<>>
     THEN gepSourcesLoop(newValue.st, f, directSources, 1, newValue.ret)
     ELSE LET loc == getInitialLocation(newValue.st, f,
                                        newValue.st.vvals[addressValue.ret].value, instr)
          IN addPointerEquality(loc.st, f, newValue.ret, loc.ret)

\* a select that depends on its operands 0 and 1
selectOfFirstOperands(st, f, instr) == executeBinary(st, f, instr)

\* execute, case Select
executeSelect(st, f, instr) ==
  LET op1 == getLatestValue(st, f, Instr[instr].ops[2], Instr[instr].ops[2])
      op2 == getLatestValue(op1.st, f, Instr[instr].ops[3], Instr[instr].ops[3])
      newValue == getNewVersionedValue(op2.st, f, instr, instr)
      s1 == IF op1.ret # 0 THEN addDependency(newValue.st, f, op1.ret, newValue.ret)
            ELSE op2.st
  IN IF op2.ret = 0 THEN s1
     ELSE IF op1.ret # 0 THEN addDependency(s1, f, op2.ret, newValue.ret)
     ELSE addDependency(newValue.st, f, op2.ret, newValue.ret)

\* BranchInst::isConditional: the branch has a condition operand
isConditional(instr) == Instr[instr].ops # <<>>

\* markAllValues and computeCoreLocations on a graph of their own
markAndCompute(st, f, val) ==
  LET marked == markAllValuesOf(st, f, EmptyGraph, val)
  IN IF marked.st.aborted THEN marked.st
     ELSE computeCoreLocations(marked.st, f, marked.g)

\* a branch handler that marks nothing
ignoreBr(st, f, instr) == st

\* execute, case Br
executeBr(st, f, instr) ==
  IF isConditional(instr) THEN markAndCompute(st, f, Instr[instr].ops[1])
  ELSE st

execute(st, f, instr) ==
  CASE Instr[instr].opcode = "Alloca" -> executeAlloca(st, f, instr)
    [] Instr[instr].opcode = "Load"   -> executeLoad(st, f, instr)
    [] Instr[instr].opcode = "Store"  -> executeStore(st, f, instr)
    [] Instr[instr].opcode \in BinaryOpcodes -> executeBinary(st, f, instr)
    [] Instr[instr].opcode = "Br"     -> executeBr(st, f, instr)
    [] Instr[instr].opcode = "Select" -> executeSelect(st, f, instr)
    [] Instr[instr].opcode \in UnaryOpcodes -> executeCast(st, f, instr)
    [] Instr[instr].opcode = "GetElementPtr" -> executeGetElementPtr(st, f, instr)
    [] OTHER                          -> [st EXCEPT !.aborted = TRUE]

\* execute(instr, args, symbolicExecutionError): the flag is read by the
\* unary instructions only
executeInState(st, f, instr, symbolicExecutionError) ==
  IF Instr[instr].opcode \in UnaryOpcodes
  THEN executeUnary(st, f, instr, symbolicExecutionError)
  ELSE execute(st, f, instr)

\* a PHI handler that records no dependency
phiWithoutDependency(st, f, instr, incomingBlock, symbolicExecutionError) ==
  getNewVersionedValue(st, f, instr, instr).st

executePHI(st, f, instr, incomingBlock, symbolicExecutionError) ==
  LET llvmArgValue == Instr[instr].ops[incomingBlock + 1]
      val == getLatestValue(st, f, llvmArgValue, instr)
  IN IF val.ret # 0
     THEN LET n == getNewVersionedValue(val.st, f, instr, instr)
          IN addDependency(n.st, f, val.ret, n.ret)
     ELSE IF isConstant(llvmArgValue) \/ isArgument(llvmArgValue)
             \/ symbolicExecutionError
     THEN getNewVersionedValue(val.st, f, instr, instr).st
     ELSE [val.st EXCEPT !.aborted = TRUE]

\* a memory operation that keeps the dependency on the address whatever the
\* bounds check said
alwaysInBounds(e, f, instr, boundsCheck) ==
  IF e.aborted \/ Instr[instr].opcode \notin {"Load", "Store"} THEN e
  ELSE markAndCompute(e, f, Instr[instr].ops[IF Instr[instr].opcode = "Load"
                                              THEN 1 ELSE 2])

\* executeMemoryOperation after its call of execute, which has left e
keepAddress(e, f, instr, boundsCheck) ==
  IF e.aborted \/ ~boundsCheck THEN e
  ELSE IF Instr[instr].opcode \notin {"Load", "Store"}
  THEN [e EXCEPT !.aborted = TRUE]
  ELSE markAndCompute(e, f, Instr[instr].ops[IF Instr[instr].opcode = "Load"
                                              THEN 1 ELSE 2])

executeMemoryOperation(st, f, instr, boundsCheck) ==
  keepAddress(execute(st, f, instr), f, instr, boundsCheck)

\* the null call site
NoSite == ""

\* ReturnInst::getReturnValue, "" for a function returning void
getReturnValue(i) == IF Instr[i].ops = <<>> THEN "" ELSE Instr[i].ops[1]

bindReturnValue(st, f, site, i, returnValue) ==
  IF site # NoSite /\ Instr[i].opcode = "Ret" /\ getReturnValue(i) # ""
  THEN LET value == getLatestValue(st, f, getReturnValue(i), returnValue)
           n == getNewVersionedValue(value.st, f, site, returnValue)
       IN IF value.ret # 0 THEN addDependency(n.st, f, value.ret, n.ret)
          ELSE value.st
  ELSE st

-----------------------------------------------------------------------------
(* execute on a call instruction: the summaries of external functions.     *)
(* calleeName is the name of the called function ("" when the call has     *)
(* none), n is args.size(); args[0] is the expression of the result and    *)
(* args[i + 1] the expression of argument operand i.  The outcome is the   *)
(* store and the number of warnings emitted.                               *)

\* the called function could not be identified
NoFunction == ""

\* f->getIntrinsicID() != llvm::Intrinsic::not_intrinsic
isIntrinsic(calleeName) ==
  Len(calleeName) >= 5 /\ SubSeq(calleeName, 1, 5) = "llvm."

\* instr->getType()->isVoidTy(), by the function called
VoidFunctions == {"free", "llvm.memcpy"}

isVoidTy(calleeName) == calleeName \in VoidFunctions

getValuePrefix == "klee_get_value"

\* calleeName.equals(getValuePrefix)
equalsGetValuePrefix(calleeName) == calleeName = getValuePrefix

\* std::mismatch(getValuePrefix.begin(), getValuePrefix.end(),
\*               calleeName.begin()).first == getValuePrefix.end()
hasGetValuePrefix(calleeName) ==
  /\ Len(calleeName) >= Len(getValuePrefix)
  /\ SubSeq(calleeName, 1, Len(getValuePrefix)) = getValuePrefix

\* instr->getOperand(i)
getOperand(instr, i) == Instr[instr].ops[i + 1]

\* args.at(k)
argsAt(instr, k) == IF k = 0 THEN instr ELSE getOperand(instr, k - 1)

\* for (i = ...; i < end; ++i): the result depends on the latest value of
\* operand i, looked up with args.at(i + 1), when there is one
RECURSIVE operandLoop(_, _, _, _, _, _)
operandLoop(st, f, instr, returnValue, i, end) ==
  IF i >= end THEN st
  ELSE LET arg == getLatestValue(st, f, getOperand(instr, i), argsAt(instr, i + 1))
       IN operandLoop(IF arg.ret # 0
                      THEN addDependency(arg.st, f, arg.ret, returnValue)
                      ELSE arg.st,
                      f, instr, returnValue, i + 1, end)

\* a new version of the result that depends on operand 0 alone
dependOnFirstOperand(st, f, instr, end) ==
  LET returnValue == getNewVersionedValue(st, f, instr, argsAt(instr, 0))
  IN operandLoop(returnValue.st, f, instr, returnValue.ret, 0,
                 IF end > 1 THEN 1 ELSE end)

\* a new version of the result that depends on the operands 0 .. end - 1
dependOnOperands(st, f, instr, end) ==
  LET returnValue == getNewVersionedValue(st, f, instr, argsAt(instr, 0))
  IN operandLoop(returnValue.st, f, instr, returnValue.ret, 0, end)

\* realloc: operand 0 is looked up with args.at(0)
dependOnReallocOperand(st, f, instr) ==
  LET returnValue == getNewVersionedValue(st, f, instr, argsAt(instr, 0))
      arg == getLatestValue(returnValue.st, f, getOperand(instr, 0), argsAt(instr, 0))
  IN IF arg.ret # 0 THEN addDependency(arg.st, f, arg.ret, returnValue.ret)
     ELSE arg.st

\* the result is stored in a new location of its own
storeAtNewLocation(st, f, instr) ==
  storeToInitialLocation(st, f, instr, argsAt(instr, 0), instr, argsAt(instr, 0))

\* malloc, calloc, getenv: the result equals a new location of its own
allocationSite(st, f, instr) ==
  LET n == getNewVersionedValue(st, f, instr, argsAt(instr, 0))
      loc == getInitialLocation(n.st, f, instr, argsAt(instr, 0))
  IN addPointerEquality(loc.st, f, n.ret, loc.ret)

\* the functions whose result is args.at(0) and nothing more
passThrough(calleeName, n) ==
  \/ calleeName = "getpagesize" /\ n = 1
  \/ calleeName = "ioctl" /\ n = 4
  \/ calleeName = "__ctype_b_loc" /\ n = 1
  \/ calleeName = "__ctype_b_locargs" /\ n = 1
  \/ calleeName \in {"puts", "fflush", "_Znwm", "_Znam", "strcmp", "strncmp"}
  \/ calleeName = "__errno_location" /\ n = 1
  \/ calleeName = "geteuid" /\ n = 1

\* a handler that makes the new version and emits nothing
silentHandler(st, f, instr, calleeName, n) ==
  IF isVoidTy(calleeName) THEN Ret(st, 0)
  ELSE IF n = 0 THEN Ret([st EXCEPT !.aborted = TRUE], 0)
  ELSE Ret(getNewVersionedValue(st, f, instr, argsAt(instr, 0)).st, 0)

\* the default handler of external functions
defaultHandler(st, f, instr, calleeName, n) ==
  IF isVoidTy(calleeName) THEN Ret(st, 0)
  ELSE IF n = 0 THEN Ret([st EXCEPT !.aborted = TRUE], 0)
  ELSE Ret(getNewVersionedValue(st, f, instr, argsAt(instr, 0)).st, 1)

\* execute, the case of a call instruction
executeCall(st, f, instr, calleeName, n) ==
  IF calleeName = NoFunction \/ isIntrinsic(calleeName) THEN Ret(st, 0)
  ELSE IF passThrough(calleeName, n)
  THEN IF n = 0 THEN Ret([st EXCEPT !.aborted = TRUE], 0)
       ELSE Ret(getNewVersionedValue(st, f, instr, argsAt(instr, 0)).st, 0)
  ELSE IF calleeName = "_ZNSi5seekgElSt12_Ios_Seekdir" /\ n = 4
  THEN Ret(dependOnOperands(st, f, instr, 3), 0)
  ELSE IF calleeName = "_ZNSt13basic_fstreamIcSt11char_traitsIcEE7is_openEv" /\ n = 2
  THEN Ret(dependOnOperands(st, f, instr, 1), 0)
  ELSE IF calleeName = "_ZNSi5tellgEv" /\ n = 2
  THEN Ret(dependOnOperands(st, f, instr, 1), 0)
  ELSE IF (calleeName = "powl" /\ n = 3) \/ (calleeName = "gettimeofday" /\ n = 3)
  THEN Ret(dependOnOperands(st, f, instr, 2), 0)
  ELSE IF calleeName = "malloc" /\ n = 1
  THEN Ret(allocationSite(st, f, instr), 0)
  ELSE IF calleeName = "realloc" /\ n = 1
  THEN Ret(dependOnReallocOperand(st, f, instr), 0)
  ELSE IF calleeName = "calloc" /\ n = 1
  THEN Ret(allocationSite(st, f, instr), 0)
  ELSE IF calleeName = "syscall" /\ n >= 2
  THEN Ret(dependOnOperands(st, f, instr, n - 1), 0)
  ELSE IF hasGetValuePrefix(calleeName) /\ n = 2
  THEN Ret(dependOnOperands(st, f, instr, 1), 0)
  ELSE IF calleeName = "getenv" /\ n = 2
  THEN Ret(allocationSite(st, f, instr), 0)
  ELSE IF calleeName = "printf" /\ n >= 2
  THEN Ret(dependOnOperands(st, f, instr, n - 1), 0)
  ELSE IF calleeName = "vprintf" /\ n = 3
  THEN Ret(dependOnOperands(st, f, instr, 2), 0)
  ELSE IF (calleeName = "fchmodat" /\ n = 5) \/ (calleeName = "fchownat" /\ n = 6)
  THEN Ret(dependOnOperands(st, f, instr, 2), 0)
  ELSE defaultHandler(st, f, instr, calleeName, n)

-----------------------------------------------------------------------------
(* The location graph driven through its interface *)

\* res: the number of calls that built the graph so far (addNewSink,
\* addNewEdge), the sink node consumeSinkNode removed (0 when none), the
\* number of consuming activations of consumeSinksWithLocations
NoCall == [op |-> "none", args |-> <<>>, res |-> 0]

Call(op, args, res) == [op |-> op, args |-> args, res |-> res]

\* a call that extends the graph; res counts the calls that built it
Extend(op) == [op |-> op, args |-> <<>>, res |-> last.res + 1]

\* the graph is built first and consumed afterwards, as markAllValues and
\* computeCoreLocations do
Building ==
  /\ last.op \in {"none", "addNewSink", "addNewEdge"}
  /\ last.res < MaxCalls

\* the location lists handed to consumeSinksWithLocations
LocationLists == {SortedSeq(S) : S \in SUBSET Locations}

Init ==
  /\ graph = EmptyGraph
  /\ hung = FALSE
  /\ last = NoCall
  /\ vvals = <<>>
  /\ mlocs = <<>>
  /\ frames = <<EmptyFrame>>
  /\ aborted = FALSE
  /\ pc = 0
  /\ shadowArray = EmptyMap
  /\ deleted = [mlocs |-> {}, vvals |-> {}]

AddNewSink(l) ==
  /\ ~hung
  /\ Building
  /\ graph' = addNewSink(graph, l)
  /\ last' = Extend("addNewSink")
  /\ UNCHANGED <<hung, depVars, shadowArray, deleted>>

\* the callers never ask for an edge from a location to itself
AddNewEdge(s, t) ==
  /\ ~hung
  /\ s # t
  /\ Building
  /\ graph' = addNewEdge(graph, s, t)
  /\ last' = Extend("addNewEdge")
  /\ UNCHANGED <<hung, depVars, shadowArray, deleted>>

ConsumeSinkNode(l) ==
  /\ ~hung
  /\ graph' = consumeSinkNode(graph, l)
  /\ last' = Call("consumeSinkNode", <<>>,
                  IF sinkPos(graph, l) = 0 THEN 0 ELSE graph.sinks[sinkPos(graph, l)])
  /\ UNCHANGED <<hung, depVars, shadowArray, deleted>>

ConsumeSinksWithLocations(list) ==
  /\ ~hung
  /\ \E r \in {consumeSinksWithLocations(graph, list)} :
        /\ graph' = r.g
        /\ hung' = ~r.returns
        /\ last' = Call("consumeSinksWithLocations", <<>>, r.rounds)
  /\ UNCHANGED <<depVars, shadowArray, deleted>>

NextGraph ==
  \/ \E l \in Locations : AddNewSink(l)
  \/ \E s, t \in Locations : AddNewEdge(s, t)
  \/ \E l \in Locations : ConsumeSinkNode(l)
  \/ \E list \in LocationLists : ConsumeSinksWithLocations(list)

SpecGraph == Init /\ [][NextGraph]_vars

-----------------------------------------------------------------------------
(* A path of the program interpreted by a chain of frames *)

\* the instructions of the path, in order; the interpreter hands each to the
\* newest frame
Body == <<"a", "b", "st1", "ldg", "la", "call", "sb", "st1", "lb", "la", "add", "br">>

\* instructions some paths do not go through
Skippable == {"ldg", "call", "sb"}

\* the values the interpreter asks getLatestValue about between instructions
QueryValues == {"g", "la"}

\* the dependency store of the current state
State ==
  [vvals |-> vvals, mlocs |-> mlocs, frames |-> frames,
   aborted |-> FALSE, hung |-> FALSE]

\* the frame the interpreter works on
top == Len(frames)

Running == ~aborted /\ ~hung /\ frames # <<>>

\* the store an operation leaves behind
Becomes(st) ==
  /\ vvals' = st.vvals
  /\ mlocs' = st.mlocs
  /\ frames' = st.frames
  /\ aborted' = st.aborted
  /\ hung' = st.hung

\* new Dependency(parentDependency): a frame for a new tree node
NewFrame ==
  /\ Running
  /\ Len(frames) < MaxFrames
  /\ frames' = Append(frames, EmptyFrame)
  /\ last' = Call("Dependency", <<top + 1>>, 0)
  /\ UNCHANGED <<graph, hung, vvals, mlocs, aborted, pc, shadowArray, deleted>>

Execute ==
  /\ Running
  /\ pc < Len(Body)
  /\ Instr[Body[pc + 1]].opcode # "Call"
  /\ Becomes(execute(State, top, Body[pc + 1]))
  /\ pc' = pc + 1
  /\ last' = Call("execute", <<top, Body[pc + 1]>>, 0)
  /\ UNCHANGED <<graph, shadowArray, deleted>>

BindCallArguments ==
  /\ Running
  /\ pc < Len(Body)
  /\ Instr[Body[pc + 1]].opcode = "Call"
  /\ Becomes(bindCallArguments(State, top, Body[pc + 1]))
  /\ pc' = pc + 1
  /\ last' = Call("bindCallArguments", <<top, Body[pc + 1]>>, Len(vvals))
  /\ UNCHANGED <<graph, shadowArray, deleted>>

\* the path does not go through the next instruction
Skip ==
  /\ Running
  /\ pc < Len(Body)
  /\ Body[pc + 1] \in Skippable
  /\ pc' = pc + 1
  /\ last' = NoCall
  /\ UNCHANGED <<graph, hung, vvals, mlocs, frames, aborted, shadowArray, deleted>>

GetLatestValue(value) ==
  /\ Running
  /\ LET r == getLatestValue(State, top, value, value)
     IN /\ Becomes(r.st)
        /\ last' = Call("getLatestValue", <<top, value>>, r.ret)
  /\ UNCHANGED <<graph, pc, shadowArray, deleted>>

\* the value whose flow sources the interpreter asks for between instructions
FlowTargets == {"add"}

\* allFlowSources(target), target being the latest version of value
AllFlowSources(value) ==
  /\ Running
  /\ getLatestValueNoConstantCheck(State, top, value) # 0
  /\ LET target == getLatestValueNoConstantCheck(State, top, value)
     IN last' = Call("allFlowSources", <<top, target>>,
                     allFlowSources(State, top, target))
  /\ UNCHANGED <<graph, hung, depVars, shadowArray, deleted>>

NextDep ==
  \/ NewFrame
  \/ Execute
  \/ BindCallArguments
  \/ Skip
  \/ \E value \in QueryValues : GetLatestValue(value)
  \/ \E value \in FlowTargets : AllFlowSources(value)

SpecDep == Init /\ [][NextDep]_vars

-----------------------------------------------------------------------------
(* Calls of external functions on a short path *)

\* the instructions the path goes through, in order, around the call
Prelude == <<"a", "st1", "la">>

\* the functions called: those with a summary, names with and without the
\* klee_get_value prefix, functions without a summary, an intrinsic, and a
\* call whose function is not known
ExternalFunctions ==
  {"getpagesize", "ioctl", "__ctype_b_loc", "__ctype_b_locargs", "puts",
   "fflush", "_Znwm", "_Znam", "strcmp", "strncmp", "__errno_location",
   "geteuid", "_ZNSi5seekgElSt12_Ios_Seekdir",
   "_ZNSt13basic_fstreamIcSt11char_traitsIcEE7is_openEv", "_ZNSi5tellgEv",
   "powl", "gettimeofday", "malloc", "realloc", "calloc", "syscall",
   "klee_get_value", "klee_get_value_i32", "klee_get_valuel", "klee_get",
   "getenv", "printf", "vprintf", "fchmodat", "fchownat",
   "rand", "free", "llvm.memcpy", NoFunction}

\* execute on the next instruction of the short path
Prepare ==
  /\ Running
  /\ pc < Len(Prelude)
  /\ Becomes(execute(State, top, Prelude[pc + 1]))
  /\ pc' = pc + 1
  /\ last' = Call("execute", <<top, Prelude[pc + 1]>>, 0)
  /\ UNCHANGED <<graph, shadowArray, deleted>>

\* execute on the call "ext" of calleeName with n argument expressions; the
\* path goes through the call once
ExecuteCall(calleeName, n) ==
  /\ Running
  /\ \A v \in DOMAIN vvals : vvals[v].value # "ext"
  /\ LET r == executeCall(State, top, "ext", calleeName, n)
     IN /\ Becomes(r.st)
        /\ last' = Call("execute", <<top, "ext", calleeName, n>>, r.ret)
  /\ UNCHANGED <<graph, pc, shadowArray, deleted>>

NextExt ==
  \/ NewFrame
  \/ Prepare
  \/ \E calleeName \in ExternalFunctions : \E n \in 0..MaxArgs :
       ExecuteCall(calleeName, n)

SpecExt == Init /\ [][NextExt]_vars

-----------------------------------------------------------------------------
(* Paths of loads and stores.  The next instruction of a path is handed to  *)
(* the newest frame; pc counts the instructions gone through.               *)

\* execute on the next instruction of path
ExecuteOn(path) ==
  /\ Running
  /\ pc < Len(path)
  /\ Becomes(execute(State, top, path[pc + 1]))
  /\ pc' = pc + 1
  /\ last' = Call("execute", <<top, path[pc + 1]>>, 0)
  /\ UNCHANGED <<graph, shadowArray, deleted>>

\* the path does not go through its next instruction, one of skippable
SkipOn(path, skippable) ==
  /\ Running
  /\ pc < Len(path)
  /\ path[pc + 1] \in skippable
  /\ pc' = pc + 1
  /\ last' = NoCall
  /\ UNCHANGED <<graph, hung, vvals, mlocs, frames, aborted, shadowArray, deleted>>

\* stores and loads through an allocation, through a select of two
\* allocations, through a global variable, through a constant getelementptr
\* expression and through an argument of main
MemBody ==
  <<"a", "st1", "la", "b", "st2", "sel", "lsel",
    "stg", "ldg", "stge", "lge", "stm", "lm">>

\* the stores some paths do not go through
MemSkippable == {"st1", "st2", "stg"}

NextMem ==
  \/ NewFrame
  \/ ExecuteOn(MemBody)
  \/ SkipOn(MemBody, MemSkippable)

SpecMem == Init /\ [][NextMem]_vars

-----------------------------------------------------------------------------
(* A path that swaps what two locations hold: each ends up holding a value  *)
(* loaded from the other, and the branch depends on both.                   *)

SwapBody ==
  <<"a", "b", "st1", "st2", "la", "lb", "sb", "sa", "la", "lb", "add", "br">>

\* instructions some paths do not go through
SwapSkippable == {"st2", "sb", "sa"}

NextSwap ==
  \/ NewFrame
  \/ ExecuteOn(SwapBody)
  \/ SkipOn(SwapBody, SwapSkippable)

SpecSwap == Init /\ [][NextSwap]_vars

-----------------------------------------------------------------------------
(* The location graph under any sequence of calls: edges and sinks may be   *)
(* added after sinks have been consumed.  pc counts the calls.              *)

\* number of calls made on the graph
MaxSteps == 4

\* the locations handed to the graph: three, so that a sink of a level above
\* zero meets a node it has no edge to
EdgeLocations == {1, 2, 3}

SinkAnytime(l) ==
  /\ pc < MaxSteps
  /\ graph' = addNewSink(graph, l)
  /\ pc' = pc + 1
  /\ last' = Call("addNewSink", <<l>>, 0)
  /\ UNCHANGED <<hung, vvals, mlocs, frames, aborted, shadowArray, deleted>>

EdgeAnytime(s, t) ==
  /\ pc < MaxSteps
  /\ s # t
  /\ graph' = addNewEdge(graph, s, t)
  /\ pc' = pc + 1
  /\ last' = Call("addNewEdge", <<s, t>>, 0)
  /\ UNCHANGED <<hung, vvals, mlocs, frames, aborted, shadowArray, deleted>>

ConsumeAnytime(l) ==
  /\ pc < MaxSteps
  /\ graph' = consumeSinkNode(graph, l)
  /\ pc' = pc + 1
  /\ last' = Call("consumeSinkNode", <<l>>, 0)
  /\ UNCHANGED <<hung, vvals, mlocs, frames, aborted, shadowArray, deleted>>

NextEdges ==
  \/ \E l \in EdgeLocations : SinkAnytime(l)
  \/ \E s, t \in EdgeLocations : EdgeAnytime(s, t)
  \/ \E l \in EdgeLocations : ConsumeAnytime(l)

SpecEdges == Init /\ [][NextEdges]_vars

-----------------------------------------------------------------------------
(* The end of a frame *)

\* Util::deletePointerVector(list): the list afterwards and the objects
\* deleted
deletePointerVector(list) == [list |-> <<>>, deleted |-> Range(list)]

\* Util::deletePointerMap(map), which deletes no object
deletePointerMap(map) == EmptyMap

\* Util::deletePointerMapWithVectorValue(map), which deletes no object
deletePointerMapWithVectorValue(map) == EmptyMap

\* Util::deletePointerMapWithMapValue(map), which deletes no object
deletePointerMapWithMapValue(map) == EmptyMap

\* ~Dependency() on a frame: the frame as the body of the destructor leaves
\* it, and the locations and the values it has deleted
destroyDependency(frame) ==
  LET locations == deletePointerVector(frame.versionedLocationsList)
  IN [frame |-> [frame EXCEPT
                   !.equalityMap = deletePointerMapWithVectorValue(@),
                   !.storesMap = deletePointerMap(@),
                   !.storageOfMap = deletePointerMapWithVectorValue(@),
                   !.flowsToMap = deletePointerMapWithMapValue(@),
                   !.valuesMap = [v \in Values |-> <<>>],
                   !.versionedLocationsList = locations.list],
      mlocs |-> locations.deleted,
      vvals |-> {}]

\* bindCallArguments on the call "call", which the path goes through once,
\* before or after the instructions around it
BindCall ==
  /\ Running
  /\ \A v \in DOMAIN vvals : vvals[v].value \notin Range(Formals)
  /\ Becomes(bindCallArguments(State, top, "call"))
  /\ last' = Call("bindCallArguments", <<top, "call">>, Len(vvals))
  /\ UNCHANGED <<graph, pc, shadowArray, deleted>>

\* delete of the newest frame; res is the frame as its destructor left it
Destroy ==
  /\ Running
  /\ LET r == destroyDependency(frames[top])
     IN /\ deleted' = [mlocs |-> deleted.mlocs \cup r.mlocs,
                       vvals |-> deleted.vvals \cup r.vvals]
        /\ last' = Call("~Dependency", <<top>>, r.frame)
  /\ frames' = SubSeq(frames, 1, top - 1)
  /\ UNCHANGED <<graph, hung, vvals, mlocs, aborted, pc, shadowArray>>

NextLife ==
  \/ NewFrame
  \/ Prepare
  \/ BindCall
  \/ Destroy

SpecLife == Init /\ [][NextLife]_vars

-----------------------------------------------------------------------------
(* A path with every operation of a frame: branches, memory operations      *)
(* with and without a bounds check, casts, a call and its return, a PHI     *)
(* node.                                                                    *)

OpsBody ==
  <<"bru", "brk", "a", "st1", "la", "zx", "zu", "gepa", "gepl", "call", "b",
    "sb", "lb", "add", "br", "phi", "ret", "retv">>

\* instructions some paths do not go through
OpsSkippable == {"call", "sb"}

\* the next instruction of the path
NextInstr == OpsBody[pc + 1]

\* the opcodes the interpreter hands to execute
ExecuteOpcodes ==
  {"Alloca", "Load", "Store", "Add", "Select", "Br", "ZExt", "GetElementPtr"}

\* executeMemoryOperation on the next instruction of the path; without a
\* bounds check it is execute alone
ExecuteMemoryOperation(boundsCheck) ==
  /\ Running
  /\ pc < Len(OpsBody)
  /\ Instr[NextInstr].opcode \in ExecuteOpcodes
  /\ Becomes(executeMemoryOperation(State, top, NextInstr, boundsCheck))
  /\ pc' = pc + 1
  /\ last' = Call("executeMemoryOperation", <<top, NextInstr, boundsCheck>>, 0)
  /\ UNCHANGED <<graph, shadowArray, deleted>>

ExecutePHI(incomingBlock, symbolicExecutionError) ==
  /\ Running
  /\ pc < Len(OpsBody)
  /\ Instr[NextInstr].opcode = "PHI"
  /\ Becomes(executePHI(State, top, NextInstr, incomingBlock, symbolicExecutionError))
  /\ pc' = pc + 1
  /\ last' = Call("executePHI",
                  <<top, NextInstr, incomingBlock, symbolicExecutionError>>, 0)
  /\ UNCHANGED <<graph, shadowArray, deleted>>

BindCallOps ==
  /\ Running
  /\ pc < Len(OpsBody)
  /\ Instr[NextInstr].opcode = "Call"
  /\ Becomes(bindCallArguments(State, top, NextInstr))
  /\ pc' = pc + 1
  /\ last' = Call("bindCallArguments", <<top, NextInstr>>, Len(vvals))
  /\ UNCHANGED <<graph, shadowArray, deleted>>

\* bindReturnValue for the call site (the call of the path, or none) on the
\* next instruction of the path, a return
BindReturnValue(site) ==
  /\ Running
  /\ pc < Len(OpsBody)
  /\ Instr[NextInstr].opcode = "Ret"
  /\ Becomes(bindReturnValue(State, top, site, NextInstr, site))
  /\ pc' = pc + 1
  /\ last' = Call("bindReturnValue", <<top, site, NextInstr>>, 0)
  /\ UNCHANGED <<graph, shadowArray, deleted>>

NextOps ==
  \/ NewFrame
  \/ \E boundsCheck \in BOOLEAN : ExecuteMemoryOperation(boundsCheck)
  \/ \E incomingBlock \in 0..4 : \E symbolicExecutionError \in BOOLEAN :
       ExecutePHI(incomingBlock, symbolicExecutionError)
  \/ BindCallOps
  \/ \E site \in {"call", NoSite} : BindReturnValue(site)
  \/ SkipOn(OpsBody, OpsSkippable)

SpecOps == Init /\ [][NextOps]_vars

-----------------------------------------------------------------------------
(* A chain of a frame, a child and a grandchild: a location of a frame      *)
(* receives a value loaded from a location of a frame further down, and a   *)
(* branch depends on it.  The path begins with a branch that has no         *)
(* condition and a branch on a literal.                                     *)

NestBody == <<"bru", "brk", "a", "b", "st2", "lb", "sa", "la", "brl">>

\* new Dependency(parentDependency), the chain growing one frame deeper
\* than on the other paths
Nest ==
  /\ Running
  /\ Len(frames) <= MaxFrames
  /\ frames' = Append(frames, EmptyFrame)
  /\ last' = Call("Dependency", <<top + 1>>, 0)
  /\ UNCHANGED <<graph, hung, vvals, mlocs, aborted, pc, shadowArray, deleted>>

\* delete of the newest frame, a child, when the path has ended
DestroyNested == top > 1 /\ pc = Len(NestBody) /\ Destroy

NextNest ==
  \/ Nest
  \/ ExecuteOn(NestBody)
  \/ DestroyNested

SpecNest == Init /\ [][NextNest]_vars

-----------------------------------------------------------------------------
(* Pointer offsets from constant bases (a global variable, a literal) and   *)
(* from an allocation, each met several times on the path                   *)

GepBody == <<"gepg", "gepc", "a", "gepa", "ldg", "gepg", "gepc", "gepg">>

GepSkippable == {"gepg", "gepc", "ldg"}

NextGep ==
  \/ NewFrame
  \/ ExecuteOn(GepBody)
  \/ SkipOn(GepBody, GepSkippable)

SpecGep == Init /\ [][NextGep]_vars

-----------------------------------------------------------------------------
(* Selects and binary instructions whose operands have a version, have      *)
(* none, or are constants; two instructions of klee_range; an instruction   *)
(* with two operands that execute has no case for                           *)

ArithBody ==
  <<"addu", "selu", "rngr", "a", "st1", "la", "cmpu", "cmpc", "sell", "rng",
    "b", "sel", "lb", "add", "ins">>

ArithSkippable == {"cmpu", "cmpc", "sell", "lb", "sel"}

NextArith ==
  \/ NewFrame
  \/ ExecuteOn(ArithBody)
  \/ SkipOn(ArithBody, ArithSkippable)

SpecArith == Init /\ [][NextArith]_vars

-----------------------------------------------------------------------------
(* Conversions of operands that have no version: arguments, a pointer       *)
(* argument, an allocation and a call not executed, a load not executed;    *)
(* then one of a loaded value, and an instruction with one operand that     *)
(* execute has no case for                                                  *)

CastBody == <<"zu", "zpu", "zb", "zc", "zlb", "a", "st1", "la", "zx", "va">>

CastSkippable == {"zu", "zpu", "zb", "zc", "zlb"}

\* execute on the next instruction of path, in a state with or without a
\* symbolic execution error
ExecuteInState(path, symbolicExecutionError) ==
  /\ Running
  /\ pc < Len(path)
  /\ Becomes(executeInState(State, top, path[pc + 1], symbolicExecutionError))
  /\ pc' = pc + 1
  /\ last' = Call("execute", <<top, path[pc + 1], symbolicExecutionError>>, 0)
  /\ UNCHANGED <<graph, shadowArray, deleted>>

NextCast ==
  \/ NewFrame
  \/ \E symbolicExecutionError \in BOOLEAN :
       ExecuteInState(CastBody, symbolicExecutionError)
  \/ SkipOn(CastBody, CastSkippable)

SpecCast == Init /\ [][NextCast]_vars

-----------------------------------------------------------------------------
(* Lookups of values and of locations.  The handlers ask for the latest     *)
(* version of an operand and for the location of a version; here the calls  *)
(* are made one at a time on the newest frame.  pc counts the calls.        *)

\* number of calls made
MaxLookups == 3

\* values a version is registered for: an allocation, an argument of main
NewValues == {"a", "m"}

\* values looked up: a literal, a global variable, a constant getelementptr
\* expression, an allocation, an argument of main
LookupValues == {"c", "g", "ge", "a", "m"}

\* getNewVersionedValue(value, valueExpr), as the handlers call it for a
\* result or for an operand met for the first time
GetNewVersionedValue(value) ==
  /\ Running
  /\ pc < MaxLookups
  /\ LET r == getNewVersionedValue(State, top, value, value)
     IN /\ Becomes(r.st)
        /\ last' = Call("getNewVersionedValue", <<top, value>>, r.ret)
  /\ pc' = pc + 1
  /\ UNCHANGED <<graph, shadowArray, deleted>>

LookUp(value) ==
  /\ Running
  /\ pc < MaxLookups
  /\ LET r == getLatestValue(State, top, value, value)
     IN /\ Becomes(r.st)
        /\ last' = Call("getLatestValue", <<top, value>>, r.ret)
  /\ pc' = pc + 1
  /\ UNCHANGED <<graph, shadowArray, deleted>>

LookUpNoConstantCheck(value) ==
  /\ Running
  /\ pc < MaxLookups
  /\ last' = Call("getLatestValueNoConstantCheck", <<top, value>>,
                  getLatestValueNoConstantCheck(State, top, value))
  /\ pc' = pc + 1
  /\ UNCHANGED <<graph, hung, vvals, mlocs, frames, aborted, shadowArray, deleted>>

\* resolveLocation(val) on a version that exists; a call makes one version
\* at most, so there are never more than MaxLookups
ResolveLocation(val) ==
  /\ Running
  /\ pc < MaxLookups
  /\ val \in DOMAIN vvals
  /\ LET r == resolveLocation(State, top, val)
     IN /\ Becomes(r.st)
        /\ last' = Call("resolveLocation", <<top, val>>, r.ret)
  /\ pc' = pc + 1
  /\ UNCHANGED <<graph, shadowArray, deleted>>

NextLookup ==
  \/ NewFrame
  \/ \E value \in NewValues : GetNewVersionedValue(value)
  \/ \E value \in LookupValues : LookUp(value)
  \/ \E value \in LookupValues : LookUpNoConstantCheck(value)
  \/ \E val \in 1..MaxLookups : ResolveLocation(val)

SpecLookup == Init /\ [][NextLookup]_vars

-----------------------------------------------------------------------------
(* Shadow expressions of the expressions of a path condition *)

\* the arrays of the path condition and the shadow arrays made for them
Arrays == {"X", "Z"}

ShadowArrays == {"Y", "W"}

\* the longest update list of a read
MaxUpdates == 2

Zero == ConstantExpr(0, Int64)

One == ConstantExpr(1, Int64)

\* a read of an array that has not been written
InitialRead(root) == ReadExpr(root, <<>>, Zero)

\* a read of an array after n writes of a value read from the array itself
UpdatedRead(root, n) ==
  ReadExpr(root, [i \in 1..n |-> [index |-> ConstantExpr(i, Int64),
                                  value |-> InitialRead(root)]], Zero)

Leaves ==
  {UpdatedRead(root, n) : root \in Arrays, n \in 0..MaxUpdates}
    \cup {ReadExpr("X", <<>>, InitialRead("X")), One}

\* the expressions built over one read of "X" and a leaf
Compounds ==
  {Node(kind, <<InitialRead("X"), e>>, <<>>) :
     kind \in BinaryFamily \ {"Not"}, e \in {InitialRead("X"), InitialRead("Z"), One}}
    \cup {Node("Not", <<e>>, <<>>) : e \in Leaves \ {One}}
    \cup {Node("Select", <<Node("Eq", <<One, InitialRead("X")>>, <<>>), e, Zero>>, <<>>) :
            e \in Leaves}
    \cup {Node("Extract", <<e>>, <<0, 8>>) : e \in Leaves \ {One}}
    \cup {Node(kind, <<e>>, <<Int64>>) : kind \in {"ZExt", "SExt"}, e \in Leaves \ {One}}
    \cup {Node("NotOptimized", <<e>>, <<>>) : e \in Leaves \ {One}}

\* the expressions with a negation below another node
Nested ==
  {Node("And", <<Node("Not", <<InitialRead("X")>>, <<>>), e>>, <<>>) : e \in Leaves}
    \cup {Node("Not", <<Node("Ult", <<InitialRead("X"), e>>, <<>>)>>, <<>>) : e \in Leaves}

ShadowInputs == Leaves \cup Compounds \cup Nested

AddShadowArrayMap(source, target) ==
  /\ ~aborted
  /\ shadowArray' = addShadowArrayMap(shadowArray, source, target)
  /\ last' = Call("addShadowArrayMap", <<source, target>>, 0)
  /\ UNCHANGED <<graph, hung, depVars, deleted>>

\* getShadowExpression(expr, replacements) with an empty replacements set
GetShadowExpression(expr, lib) ==
  /\ ~aborted
  /\ LET r == getShadowExpression(expr, [replacements |-> {},
                                         shadowArray |-> shadowArray,
                                         aborted |-> FALSE], lib)
     IN /\ shadowArray' = r.st.shadowArray
        /\ aborted' = r.st.aborted
        /\ last' = Call("getShadowExpression", <<expr>>,
                        [ret |-> r.ret, replacements |-> r.st.replacements])
  /\ UNCHANGED <<graph, hung, vvals, mlocs, frames, pc, deleted>>

NextShadow ==
  \/ \E source \in Arrays : \E target \in ShadowArrays :
       AddShadowArrayMap(source, target)
  \/ \E expr \in ShadowInputs : \E lib \in LibraryOutcomes :
       GetShadowExpression(expr, lib)

SpecShadow == Init /\ [][NextShadow]_vars

-----------------------------------------------------------------------------
(* Derived locations and indentation, each called on its own *)

\* the offsets: every constant of the word, and two symbolic ones
Offsets ==
  {ConstantExpr(v, Int64) : v \in 0..(WordModulus - 1)}
    \cup {InitialRead("X"), Node("Add", <<One, InitialRead("X")>>, <<>>)}

\* the base locations: of an allocation at a constant address and of a
\* global at a symbolic one
BaseLocations ==
  {[core |-> core, site |-> at[1], address |-> at[2], offset |-> offset] :
     core \in BOOLEAN, at \in {<<"a", One>>, <<"g", InitialRead("Z")>>},
     offset \in Offsets}

\* new MemoryLocation(loc, _offset)
DeriveLocation(loc, _offset, lib) ==
  /\ ~aborted
  /\ LET r == deriveLocation(loc, _offset, lib)
     IN /\ aborted' = ~r.ok
        /\ last' = Call("MemoryLocation", <<loc, _offset>>, r.loc)
  /\ UNCHANGED <<graph, hung, vvals, mlocs, frames, pc, shadowArray, deleted>>

\* the largest padding amount
MaxTabs == 3

MakeTabs(paddingAmount) ==
  /\ ~aborted
  /\ last' = Call("makeTabs", <<paddingAmount>>, makeTabs(paddingAmount))
  /\ UNCHANGED <<graph, hung, depVars, shadowArray, deleted>>

\* the prefixes handed to appendTab
Prefixes == {"", "|", "        ", "    x"}

AppendTab(prefix) ==
  /\ ~aborted
  /\ last' = Call("appendTab", <<prefix>>, appendTab(prefix))
  /\ UNCHANGED <<graph, hung, depVars, shadowArray, deleted>>

NextUtil ==
  \/ \E loc \in BaseLocations : \E _offset \in Offsets : \E lib \in LibraryOutcomes :
       DeriveLocation(loc, _offset, lib)
  \/ \E paddingAmount \in 0..MaxTabs : MakeTabs(paddingAmount)
  \/ \E prefix \in Prefixes : AppendTab(prefix)

SpecUtil == Init /\ [][NextUtil]_vars

-----------------------------------------------------------------------------
(* Parent links of the location graph *)

parentNodes(g, S) == UNION {Range(getParents(g, n)) : n \in S}

RECURSIVE closeUnderParents(_, _)
closeUnderParents(g, S) ==
  LET T == S \cup parentNodes(g, S)
  IN IF T = S THEN S ELSE closeUnderParents(g, T)

\* the nodes reached from n by following one parent link or more
NodeAncestors(g, n) == closeUnderParents(g, parentNodes(g, {n}))

\* the locations reached from l by following one parent link or more
LocAncestors(g, l) ==
  LET holders == {n \in DOMAIN g.allNodes : getLocation(g, n) = l}
  IN {getLocation(g, m) : m \in closeUnderParents(g, parentNodes(g, holders))}

NoDuplicates(s) == \A i, j \in DOMAIN s : s[i] = s[j] => i = j

-----------------------------------------------------------------------------
(* C1 *)

\* C1: after any sequence of addNewSink and addNewEdge calls on an empty
\* graph, no node and no location is reachable from itself by following
\* parent links.
C1_NoParentCycle ==
  /\ \A n \in DOMAIN graph.allNodes : n \notin NodeAncestors(graph, n)
  /\ \A l \in Locations : l \notin LocAncestors(graph, l)

-----------------------------------------------------------------------------
(* C8 *)

\* what consumeSinkNode(l) is to do to the sinks and the nodes, S being the
\* first sink that holds l
C8_Effect(l) ==
  LET pos == sinkPos(graph, l)
      S == IF pos = 0 THEN 0 ELSE graph.sinks[pos]
  IN /\ graph'.allNodes = graph.allNodes
     /\ pos = 0 => graph'.sinks = graph.sinks
     /\ pos # 0 =>
          /\ Range(graph'.sinks) =
               (Range(graph.sinks) \ {S}) \cup Range(getParents(graph, S))
          /\ NoDuplicates(graph'.sinks)
          /\ SubSeq(graph'.sinks, 1, Len(graph.sinks) - 1) = RemoveAt(graph.sinks, pos)

\* C8 (as amended): consumeSinkNode(l) removes the first sink S holding l,
\* appends exactly the parents of S that are not sinks already, each once,
\* keeps every other sink and every node and parent set, and changes nothing
\* when no sink holds l.  (A sink holding l may remain.)
C8_ConsumeSinkNode ==
  [][last'.op = "consumeSinkNode" =>
       \A l \in Locations : ConsumeSinkNode(l) => C8_Effect(l)]_vars

\* C8 (as claimed): the same, and afterwards l is no longer a sink location.
C8_Original ==
  [][last'.op = "consumeSinkNode" =>
       \A l \in Locations :
         ConsumeSinkNode(l) =>
           /\ C8_Effect(l)
           /\ sinkPos(graph, l) # 0 => l \notin getSinkLocations(graph')]_vars

\* a sink with two parents, one of them a sink already, has been consumed
C8_Witness ==
  /\ last.op = "consumeSinkNode"
  /\ last.res # 0
  /\ ~InSeq(graph.sinks, last.res)
  /\ Len(getParents(graph, last.res)) >= 2
  /\ \A p \in Range(getParents(graph, last.res)) : InSeq(graph.sinks, p)

-----------------------------------------------------------------------------
(* C9 *)

\* C9: when consumeSinksWithLocations(list) returns, no sink has a location
\* of list, every earlier sink whose location is not in list is still a
\* sink, and every new sink is a transitive parent of a consumed sink.
C9_ConsumeSinksWithLocations ==
  [][(last'.op = "consumeSinksWithLocations" /\ ~hung') =>
       \A list \in LocationLists :
         ConsumeSinksWithLocations(list) =>
           /\ \A n \in Range(graph'.sinks) : ~InSeq(list, getLocation(graph', n))
           /\ \A n \in Range(graph.sinks) :
                ~InSeq(list, getLocation(graph, n)) => InSeq(graph'.sinks, n)
           /\ \A n \in Range(graph'.sinks) \ Range(graph.sinks) :
                \E m \in Range(graph.sinks) \ Range(graph'.sinks) :
                  /\ InSeq(list, getLocation(graph, m))
                  /\ n \in NodeAncestors(graph, m)]_vars

\* a call that returned after consuming a sink and then a promoted parent,
\* leaving a promoted sink behind
C9_Witness ==
  /\ last.op = "consumeSinksWithLocations"
  /\ ~hung
  /\ last.res >= 2
  /\ graph.sinks # <<>>

-----------------------------------------------------------------------------
(* C2 *)

\* the store instructions of the path
StoreInstrs == {i \in DOMAIN Instr : Instr[i].opcode = "Store"}

\* the location the address operand of store instruction i resolves to
StoreTarget(i) ==
  resolveLocationTransitively(State, top,
      getLatestValueNoConstantCheck(State, top, Instr[i].ops[2])).ret

\* the entry of the nearest frame, from f up, that has one for loc
NearestStore(f, loc) ==
  LET having == {h \in 1..f : Has(frames[h].storesMap, loc)}
  IN IF having = {} THEN <<>>
     ELSE <<frames[CHOOSE h \in having : \A k \in having : k <= h].storesMap[loc]>>

\* the values frame f has stored to loc so far
StoredBy(f, loc) ==
  {v \in DOMAIN frames[f].storageOfMap : InSeq(frames[f].storageOfMap[v], loc)}

\* C2: a store of V2 to a location L, also after an earlier store of V1 to L
\* by the same frame, leaves stores(L) = <<V2>>; and stores(L) always is the
\* one local entry if there is one, else the nearest ancestor's, never two.
C2_LastStoreWins ==
  /\ [](\A f \in DOMAIN frames : \A loc \in DOMAIN mlocs :
          /\ Len(stores(State, f, loc)) <= 1
          /\ stores(State, f, loc) = NearestStore(f, loc))
  /\ [][\A i \in StoreInstrs :
          (Execute /\ Body[pc + 1] = i /\ ~aborted') =>
            \A k \in DOMAIN StoreTarget(i) :
              LET st == [State EXCEPT !.vvals = vvals', !.mlocs = mlocs',
                                      !.frames = frames']
              IN stores(st, top, StoreTarget(i)[k])
                   = <<getLatestValueNoConstantCheck(st, top, Instr[i].ops[1])>>]_vars

\* a frame has stored V1 and then V2 to the same location, which holds V2
C2_Witness ==
  /\ last.op = "execute"
  /\ last.args[2] \in StoreInstrs
  /\ \E loc \in DOMAIN mlocs : \E V1, V2 \in StoredBy(top, loc) :
       /\ V1 < V2
       /\ V2 = Back(frames[top].valuesMap[Instr[last.args[2]].ops[1]])
       /\ stores(State, top, loc) = <<V2>>

-----------------------------------------------------------------------------
(* C3 *)

\* the versions of value that frame h has, as a set
Versions(h, value) == Range(frames[h].valuesMap[value])

\* the most recently created version of value in the nearest frame, from f
\* up, that has any (0 when none has)
NearestLatest(f, value) ==
  LET having == {h \in 1..f : Versions(h, value) # {}}
      h == CHOOSE h \in having : \A k \in having : k <= h
  IN IF having = {} THEN 0
     ELSE CHOOSE v \in Versions(h, value) : \A w \in Versions(h, value) : w <= v

\* C3: for a value that is not a constant, getLatestValue and
\* getLatestValueNoConstantCheck on a frame return the most recent version
\* of the frame itself when it has one, whatever its ancestors have, and
\* else the most recent version of the nearest ancestor that has one.
C3_NearestVersion ==
  \A f \in DOMAIN frames : \A value \in Values :
    (~isConstant(value) /\ NearestLatest(f, value) # 0) =>
      /\ getLatestValueNoConstantCheck(State, f, value) = NearestLatest(f, value)
      /\ getLatestValue(State, f, value, value).ret = NearestLatest(f, value)
      /\ getLatestValue(State, f, value, value).st = State

\* a child that has versions of its own was asked, its parent having one too
C3_WitnessChild ==
  /\ last.op = "getLatestValue"
  /\ last.args = <<2, "la">>
  /\ Versions(1, "la") # {}
  /\ Versions(2, "la") # {}
  /\ last.res \in Versions(2, "la")

-----------------------------------------------------------------------------
(* C4 *)

\* the facts of a frame a descendant may look up
Facts(frame) ==
  <<frame.valuesMap, frame.versionedLocationsList, frame.equalityMap,
    frame.storesMap, frame.storageOfMap, frame.flowsToMap>>

\* C4: no operation invoked on a frame changes the version lists, the
\* location list, the equality map, the store map, the storage-of map or
\* the flow map of an ancestor of the frame.
C4_AncestorsUntouched ==
  [][\A h \in 1..(top - 1) : Facts(frames'[h]) = Facts(frames[h])]_vars

-----------------------------------------------------------------------------
(* C5 *)

\* value has no version in any frame from f up
Unversioned(f, value) == \A h \in 1..f : frames[h].valuesMap[value] = <<>>

\* C5: getLatestValue on a frame, for a global value without a version in
\* the chain of the frame, registers the new version, its initial location
\* and the equality of the two in that frame and in no ancestor.
C5_RegisteredInCallingFrame ==
  [][\A value \in QueryValues :
       (GetLatestValue(value) /\ isGlobalValue(value) /\ Unversioned(top, value)) =>
         /\ frames'[top].valuesMap[value] = <<last'.res>>
         /\ Has(frames'[top].equalityMap, last'.res)
         /\ Len(frames'[top].versionedLocationsList)
              = Len(frames[top].versionedLocationsList) + 1
         /\ \A h \in 1..(top - 1) : frames'[h] = frames[h]]_vars

-----------------------------------------------------------------------------
(* C6 *)

\* the frame that created loc
Owner(loc) == CHOOSE h \in DOMAIN frames : InSeq(frames[h].versionedLocationsList, loc)

\* the locations the flow sources of the latest version of val were loaded from
ResolvedLocations(f, val) ==
  LET value == getLatestValueNoConstantCheck(State, f, val)
      sources == directLocationSources(State, f, value)
  IN IF value = 0 THEN {} ELSE {sources[k] : k \in DOMAIN sources}

\* C6: when the condition of a branch interpreted by a child frame resolves,
\* through its flow sources, to a location of the parent frame, marking the
\* condition and computing the core locations on the child puts the
\* location in the core locations of the parent.
C6_ParentLocationBecomesCore ==
  [][(Execute /\ Instr[Body[pc + 1]].opcode = "Br" /\ top > 1
        /\ ~aborted' /\ ~hung') =>
       \A loc \in ResolvedLocations(top, Instr[Body[pc + 1]].ops[1]) :
         Owner(loc) = top - 1 => loc \in frames'[top - 1].coreLocations]_vars

-----------------------------------------------------------------------------
(* C7 *)

\* C7: the core locations of a frame are locations the frame created.
C7_CoreLocationsOwned ==
  \A f \in DOMAIN frames :
    frames[f].coreLocations \subseteq Range(frames[f].versionedLocationsList)

-----------------------------------------------------------------------------
(* C10 *)

\* C10: bindCallArguments gives each formal parameter p_i a new latest
\* version whose only direct flow source is a versioned value of the actual
\* argument a_i (its latest version when a_i has one) and has the
\* expression of a_i, which the new version takes over; and it leaves the
\* argument-value list of the frame empty.
C10_FormalsBoundToActuals ==
  [][BindCallArguments =>
       LET st == [State EXCEPT !.vvals = vvals', !.mlocs = mlocs', !.frames = frames']
           site == Body[pc + 1]
       IN /\ frames'[top].argumentValuesList = <<>>
          /\ \A i \in DOMAIN Formals :
               LET p == getLatestValueNoConstantCheck(st, top, Formals[i])
                   sources == directFlowSources(st, top, p)
               IN /\ p > Len(vvals)
                  /\ Len(sources) = 1
                  /\ vvals'[sources[1]].value = Instr[site].ops[i]
                  /\ vvals'[sources[1]].expr = Instr[site].ops[i]
                  /\ vvals'[p].expr = Instr[site].ops[i]
                  /\ (~isConstant(Instr[site].ops[i])
                        /\ ~Unversioned(top, Instr[site].ops[i]))
                       => sources[1] = getLatestValueNoConstantCheck(
                                         State, top, Instr[site].ops[i])]_vars

\* the call was bound with a versioned first actual argument
C10_Witness ==
  /\ last.op = "bindCallArguments"
  /\ frames[top].valuesMap["p0"] # <<>>
  /\ frames[top].valuesMap["p1"] # <<>>
  /\ \E v \in DOMAIN vvals : vvals[v].value = "la" /\ v <= last.res
       /\ Has(frames[top].flowsToMap, Back(frames[top].valuesMap["p0"]))
       /\ Has(frames[top].flowsToMap[Back(frames[top].valuesMap["p0"])], v)

-----------------------------------------------------------------------------
(* C11 *)

\* the direct flow predecessors of v recorded by the frames from f up
FlowPredecessors(f, v) ==
  UNION {DOMAIN frames[h].flowsToMap[v] :
           h \in {k \in 1..f : Has(frames[k].flowsToMap, v)}}

\* S and every value reached from S through flow predecessors
RECURSIVE FlowClosure(_, _)
FlowClosure(f, S) ==
  LET T == S \cup UNION {FlowPredecessors(f, v) : v \in S}
  IN IF T = S THEN S ELSE FlowClosure(f, T)

\* C11: allFlowSources(target) returns the transitive flow predecessors of
\* target, through the flow maps of the frame and of its ancestors, and
\* target itself, and no value twice.
C11_AllFlowSources ==
  last.op = "allFlowSources" =>
    /\ Range(last.res) = FlowClosure(last.args[1], {last.args[2]})
    /\ NoDuplicates(last.res)

-----------------------------------------------------------------------------
(* C12 - C15: the summaries of external functions *)

\* the step is execute on the call "ext"
IsCallStep == last'.op = "execute" /\ Len(last'.args) = 4

\* execute on the call "ext" was the last operation
WasCall == last.op = "execute" /\ Len(last.args) = 4

\* name begins with prefix
BeginsWith(name, prefix) ==
  \E k \in 0..Len(name) : SubSeq(name, 1, k) = prefix

\* the version a new VersionedValue of the result of the call is
ResultVersion == [value |-> "ext", expr |-> "ext", core |-> FALSE]

\* the direct flow sources the frame records for versioned value v
SourcesIn(frame, v) ==
  IF Has(frame.flowsToMap, v) THEN DOMAIN frame.flowsToMap[v] ELSE {}

\* the operand has a latest value: it is a constant, or has a version in
\* the frame or an ancestor
Resolves(o) == isConstant(o) \/ ~Unversioned(top, o)

\* the step creates one new version r of the result of the call, and makes
\* it flow directly from the latest value of each operand of the set
\* operands that resolves, and from no other value
DependsOn(operands) ==
  LET r == Len(vvals) + 1
      listed == {getOperand("ext", i) : i \in operands}
      sources == SourcesIn(frames'[top], r)
  IN /\ ~aborted'
     /\ Len(vvals') > Len(vvals)
     /\ vvals'[r] = ResultVersion
     /\ \A w \in (r + 1)..Len(vvals') : vvals'[w].value # "ext"
     /\ frames'[top].valuesMap["ext"] = Append(frames[top].valuesMap["ext"], r)
     /\ {vvals'[s].value : s \in sources} = {o \in listed : Resolves(o)}
     /\ \A s \in sources :
          /\ frames'[top].flowsToMap[r][s] = 0
          /\ IF s <= Len(vvals) THEN s = NearestLatest(top, vvals[s].value)
             ELSE isConstant(vvals'[s].value)
     /\ \A o \in listed :
          (~isConstant(o) /\ ~Unversioned(top, o)) => NearestLatest(top, o) \in sources
     /\ \A v \in DOMAIN frames'[top].flowsToMap :
          v # r => /\ Has(frames[top].flowsToMap, v)
                   /\ frames'[top].flowsToMap[v] = frames[top].flowsToMap[v]
     /\ \A h \in 1..(top - 1) : frames'[h].flowsToMap = frames[h].flowsToMap

\* malloc and calloc with one argument expression, getenv with two
AllocationSites == {<<"malloc", 1>>, <<"calloc", 1>>, <<"getenv", 2>>}

\* C12: execute on a call of malloc or calloc with one argument expression,
\* or of getenv with two, creates one new version of the result and one new
\* initial location whose site is the call and whose address is argument
\* expression 0, records that the version equals the location, and adds no
\* flow dependency and no store.
C12_AllocationSite ==
  [][(IsCallStep /\ <<last'.args[3], last'.args[4]>> \in AllocationSites) =>
       LET v == Len(vvals) + 1
           l == Len(mlocs) + 1
       IN /\ ~aborted'
          /\ vvals' = Append(vvals, ResultVersion)
          /\ mlocs' = Append(mlocs, [site |-> "ext", address |-> "ext"])
          /\ frames'[top] =
               [frames[top] EXCEPT !.valuesMap["ext"] = Append(@, v),
                                   !.versionedLocationsList = Append(@, l),
                                   !.equalityMap = Put(@, v, <<l>>)]
          /\ \A h \in 1..(top - 1) : frames'[h] = frames[h]]_vars

\* a child frame that had loaded a value has executed a call of getenv
C12_Witness ==
  /\ WasCall
  /\ last.args = <<2, "ext", "getenv", 2>>
  /\ frames[2].valuesMap["la"] # <<>>
  /\ \E v \in DOMAIN frames[2].equalityMap :
       /\ vvals[v].value = "ext"
       /\ mlocs[Back(frames[2].equalityMap[v])].site = "ext"

\* the summaries that make the result depend on operands
DependencyShaped(calleeName, n) ==
  \/ calleeName = "realloc" /\ n = 1
  \/ calleeName = "_ZNSi5seekgElSt12_Ios_Seekdir" /\ n = 4
  \/ calleeName = "_ZNSt13basic_fstreamIcSt11char_traitsIcEE7is_openEv" /\ n = 2
  \/ calleeName = "_ZNSi5tellgEv" /\ n = 2
  \/ calleeName \in {"powl", "gettimeofday", "vprintf"} /\ n = 3
  \/ calleeName = "fchmodat" /\ n = 5
  \/ calleeName = "fchownat" /\ n = 6
  \/ calleeName \in {"syscall", "printf"} /\ n >= 2

\* the operands such a summary lists
ListedOperands(calleeName, n) ==
  IF calleeName \in {"syscall", "printf"} THEN 0..(n - 2)
  ELSE IF calleeName = "_ZNSi5seekgElSt12_Ios_Seekdir" THEN 0..2
  ELSE IF calleeName \in {"powl", "gettimeofday", "vprintf", "fchmodat", "fchownat"}
  THEN 0..1
  ELSE {0}

\* C13: for realloc/1 (operand 0), stream seek/4 (operands 0-2), stream
\* is_open/2 and tellg/2 (operand 0), powl/3, gettimeofday/3, vprintf/3,
\* fchmodat/5 and fchownat/6 (operands 0-1), syscall and printf with two
\* argument expressions or more (every argument operand), execute creates
\* one new version of the result of the call and adds a direct flow
\* dependency into it from the latest value of each listed operand that
\* resolves, and from no other value.
C13_DependencySummaries ==
  [][(IsCallStep /\ DependencyShaped(last'.args[3], last'.args[4])) =>
       DependsOn(ListedOperands(last'.args[3], last'.args[4]))]_vars

\* a child frame has executed printf with four argument expressions: the
\* result flows from the value loaded by the parent and from a new version
\* of the literal, the third operand having no value
C13_Witness ==
  /\ WasCall
  /\ last.args = <<2, "ext", "printf", 4>>
  /\ frames[1].valuesMap["la"] # <<>>
  /\ frames[2].valuesMap["la"] = <<>>
  /\ frames[2].valuesMap["ext"] # <<>>
  /\ LET sources == SourcesIn(frames[2], Back(frames[2].valuesMap["ext"]))
     IN /\ Back(frames[1].valuesMap["la"]) \in sources
        /\ {vvals[s].value : s \in sources} = {"la", "c"}

\* C14 (as amended): execute on a call of a function whose name begins with
\* klee_get_value, with two argument expressions, creates one new version
\* of the result from argument expression 0 and adds a direct flow
\* dependency into it from the latest value of operand 0 when it resolves,
\* and from no other value.
C14_GetValueDependsOnOperand ==
  [][(IsCallStep /\ BeginsWith(last'.args[3], "klee_get_value") /\ last'.args[4] = 2) =>
       DependsOn({0})]_vars

\* C14 (as claimed): such a call is a pass-through, it creates the new
\* version and records no flow dependency from any operand.
C14_Original ==
  [][(IsCallStep /\ BeginsWith(last'.args[3], "klee_get_value") /\ last'.args[4] = 2) =>
       DependsOn({})]_vars

\* klee_get_value_i32 was called on a loaded value, which the result flows from
C14_Witness ==
  /\ WasCall
  /\ last.args[3] = "klee_get_value_i32"
  /\ last.args[4] = 2
  /\ ~Unversioned(top, "la")
  /\ frames[top].valuesMap["ext"] # <<>>
  /\ SourcesIn(frames[top], Back(frames[top].valuesMap["ext"]))
       = {NearestLatest(top, "la")}

\* the name and argument count have an entry in the table of summaries
TableEntry(calleeName, n) ==
  \/ <<calleeName, n>> \in
       {<<"getpagesize", 1>>, <<"ioctl", 4>>, <<"__ctype_b_loc", 1>>,
        <<"__ctype_b_locargs", 1>>, <<"__errno_location", 1>>, <<"geteuid", 1>>}
  \/ calleeName \in {"puts", "fflush", "_Znwm", "_Znam", "strcmp", "strncmp"}
  \/ BeginsWith(calleeName, "klee_get_value") /\ n = 2
  \/ <<calleeName, n>> \in AllocationSites
  \/ DependencyShaped(calleeName, n)

\* C15: execute on a call of a function that is not an intrinsic and whose
\* name and argument count have no entry in the table: when the call
\* returns a value (and was handed the expression of its result), one new
\* version of the result is created, with no flow source, no equality and
\* no store, and one warning is emitted; when it returns void, the store is
\* unchanged and no warning is emitted.
C15_DefaultHandler ==
  [][(IsCallStep /\ last'.args[3] # NoFunction /\ ~BeginsWith(last'.args[3], "llvm.")
        /\ ~TableEntry(last'.args[3], last'.args[4])) =>
       IF last'.args[3] \in VoidFunctions
       THEN /\ UNCHANGED <<vvals, mlocs, frames, aborted>>
            /\ last'.res = 0
       ELSE last'.args[4] >= 1 =>
              /\ ~aborted'
              /\ vvals' = Append(vvals, ResultVersion)
              /\ mlocs' = mlocs
              /\ frames' = [frames EXCEPT ![top].valuesMap["ext"] =
                                            Append(@, Len(vvals) + 1)]
              /\ last'.res = 1]_vars

\* malloc was called with two argument expressions in a child frame: a new
\* version without sources and a warning
C15_Witness ==
  /\ WasCall
  /\ last.args = <<2, "ext", "malloc", 2>>
  /\ last.res = 1
  /\ frames[1].valuesMap["la"] # <<>>
  /\ frames[2].valuesMap["ext"] # <<>>
  /\ frames[2].equalityMap = EmptyMap
  /\ frames[2].flowsToMap = EmptyMap

\* free, which returns void and has no summary, was called after a load
C15_WitnessVoid ==
  /\ WasCall
  /\ last.args[3] = "free"
  /\ last.res = 0
  /\ frames[top].valuesMap["la"] # <<>>
  /\ frames[top].valuesMap["ext"] = <<>>

-----------------------------------------------------------------------------
(* C16 *)

\* the arrays an expression reads, in its update lists too
RECURSIVE ArraysRead(_)
ArraysRead(expr) ==
  UNION {ArraysRead(expr.kids[k]) : k \in DOMAIN expr.kids}
    \cup (IF expr.kind = "Read"
          THEN {expr.root}
                 \cup UNION {ArraysRead(expr.updates[k].index)
                                \cup ArraysRead(expr.updates[k].value) :
                              k \in DOMAIN expr.updates}
          ELSE {})

\* the expression with every array it reads replaced as the map says, and
\* nothing else changed
RECURSIVE Renamed(_, _)
Renamed(expr, map) ==
  [kind |-> expr.kind,
   kids |-> [k \in DOMAIN expr.kids |-> Renamed(expr.kids[k], map)],
   root |-> IF expr.kind = "Read" THEN map[expr.root] ELSE expr.root,
   updates |-> [k \in DOMAIN expr.updates |->
                  [index |-> Renamed(expr.updates[k].index, map),
                   value |-> Renamed(expr.updates[k].value, map)]],
   data |-> expr.data]

\* C16: with array X registered to have the shadow array Y,
\* getShadowExpression of an expression whose reads are all of X returns the
\* expression of the same structure in which every read is of Y, and the
\* replacements set then holds Y and no other array.
C16_ShadowOfReads ==
  [][last'.op = "getShadowExpression" =>
       LET expr == last'.args[1]
       IN \A X \in Arrays :
            (ArraysRead(expr) = {X} /\ Has(shadowArray, X) /\ shadowArray[X] \in ShadowArrays)
              => /\ ~aborted'
                 /\ last'.res.ret = Renamed(expr, shadowArray)
                 /\ last'.res.replacements = {shadowArray[X]}]_vars

-----------------------------------------------------------------------------
(* C17, C18 *)

\* a location has just been derived
Derived == last'.op = "MemoryLocation"

\* the base it has been derived from, and the extra offset
DerivedFrom == last'.args[1]

DerivedBy == last'.args[2]

IsConstant(expr) == expr.kind = "Constant"

\* the constant of 64 bits that is the sum of two constants, as unsigned
\* integers of the word
FoldedSum(a, b) ==
  [kind |-> "Constant", kids |-> <<>>, root |-> NoArray, updates |-> <<>>,
   data |-> <<(a.data[1] + b.data[1]) % (2 ^ WordBits), 64>>]

\* C17: deriving a memory location from a base location with constant
\* offset A and a constant extra offset B yields a location whose offset is
\* the single folded constant A+B (unsigned sum of the word), not an
\* addition node, with site, core flag and address copied from the base.
C17_ConstantOffsetsFolded ==
  [][(Derived /\ IsConstant(DerivedFrom.offset) /\ IsConstant(DerivedBy))
       => /\ ~aborted'
          /\ last'.res.offset = FoldedSum(DerivedFrom.offset, DerivedBy)
          /\ last'.res.site = DerivedFrom.site
          /\ last'.res.core = DerivedFrom.core
          /\ last'.res.address = DerivedFrom.address]_vars

\* C17 as stated: the address of the derived location is the folded sum of
\* the constant address of the base and the constant extra offset
C17_Original ==
  [][(Derived /\ IsConstant(DerivedFrom.address) /\ IsConstant(DerivedBy))
       => /\ ~aborted'
          /\ last'.res.address = FoldedSum(DerivedFrom.address, DerivedBy)
          /\ last'.res.site = DerivedFrom.site
          /\ last'.res.core = DerivedFrom.core]_vars

\* a core location with a constant offset has been shifted by a constant
\* that makes the sum wrap around
C17_Witness ==
  /\ last.op = "MemoryLocation"
  /\ ~aborted
  /\ last.args[1].core
  /\ IsConstant(last.args[1].offset) /\ IsConstant(last.args[2])
  /\ last.args[1].offset.data[1] + last.args[2].data[1] >= 2 ^ WordBits
  /\ last.args[2].data[1] > 0
  /\ IsConstant(last.res.offset)

\* C18: deriving a memory location from a base location with a symbolic
\* extra offset yields an addition node whose two operands are the offset
\* expression of the base location and the extra offset, both unchanged.
C18_SymbolicOffsetAdded ==
  [][(Derived /\ ~IsConstant(DerivedBy))
       => /\ ~aborted'
          /\ last'.res.offset.kind = "Add"
          /\ last'.res.offset.kids = <<DerivedFrom.offset, DerivedBy>>]_vars

-----------------------------------------------------------------------------
(* C20 *)

\* the string of n spaces
RECURSIVE Spaces(_)
Spaces(n) == IF n = 0 THEN "" ELSE " " \o Spaces(n - 1)

\* C20: makeTabs(count) returns the string of 8*count spaces, and
\* appendTab(prefix) returns prefix followed by 8 spaces.
C20_MakeTabs ==
  [][/\ last'.op = "makeTabs" => last'.res = Spaces(8 * last'.args[1])
     /\ last'.op = "appendTab" => last'.res = last'.args[1] \o Spaces(8)]_vars

-----------------------------------------------------------------------------
(* C19 *)

\* the values registered in a frame, which the frame has created
RegisteredValues(frame) == UNION {Range(frame.valuesMap[v]) : v \in Values}

RelationsEmpty(frame) ==
  /\ frame.equalityMap = EmptyMap
  /\ frame.storesMap = EmptyMap
  /\ frame.storageOfMap = EmptyMap
  /\ frame.flowsToMap = EmptyMap
  /\ \A v \in Values : frame.valuesMap[v] = <<>>

\* C19: destroying a frame releases every versioned value and every
\* versioned location the frame created, the values created for the binding
\* of call arguments too (once no frame is left, no value and no location
\* remains allocated), empties all its relation maps, and leaves the parent
\* frame and the objects of the ancestors untouched.
C19_FrameReleased ==
  [][last'.op = "~Dependency" =>
       LET frame == frames[last'.args[1]]
           ancestors == SubSeq(frames, 1, last'.args[1] - 1)
       IN /\ RegisteredValues(frame) \subseteq deleted'.vvals
          /\ Range(frame.versionedLocationsList) \subseteq deleted'.mlocs
          /\ frames' = <<>> => /\ deleted'.vvals = DOMAIN vvals
                               /\ deleted'.mlocs = DOMAIN mlocs
          /\ RelationsEmpty(last'.res)
          /\ frames' = ancestors
          /\ \A k \in DOMAIN ancestors :
               /\ RegisteredValues(ancestors[k]) \cap deleted'.vvals = {}
               /\ Range(ancestors[k].versionedLocationsList) \cap deleted'.mlocs = {}]_vars

-----------------------------------------------------------------------------
(* C30 *)

\* the parent links a step has recorded: <<node, parent>>
NewLinks ==
  {link \in UNION {{<<n, p>> : p \in Range(graph'.allNodes[n].parents)} :
                     n \in DOMAIN graph'.allNodes} :
     \/ link[1] > Len(graph.allNodes)
     \/ link[2] \notin Range(graph.allNodes[link[1]].parents)}

\* the node has been created by the step
Fresh(n) == n > Len(graph.allNodes)

\* C30: addNewEdge(S, T) records the edge (S becomes a parent of T) only if
\* the node of S or the node of T is created in that call, or the level of T
\* is not below the level of S; it never records an edge from a sink that
\* exists into a node that exists and whose level is below the sink's.
C30_EdgeGuard ==
  [][last'.op = "addNewEdge" =>
       \A link \in NewLinks :
         \/ Fresh(link[1])
         \/ Fresh(link[2])
         \/ ~(graph'.allNodes[link[1]].level < graph'.allNodes[link[2]].level)]_vars

\* C30 as stated: the edge is recorded only if the node of T is created in
\* that call or the level of T is not below the level of S
C30_Original ==
  [][last'.op = "addNewEdge" =>
       \A link \in NewLinks :
         \/ Fresh(link[1])
         \/ ~(graph'.allNodes[link[1]].level < graph'.allNodes[link[2]].level)]_vars

\* an addNewEdge(S, T) has created the node of S above a node of T that
\* existed, and recorded the edge although the level of T is below that of S
C30_Witness ==
  /\ last.op = "addNewEdge"
  /\ Len(graph.allNodes) > 1
  /\ LET sourceNode == Len(graph.allNodes)
     IN /\ graph.allNodes[sourceNode].location = last.args[1]
        /\ \E targetNode \in 1..(sourceNode - 1) :
             /\ graph.allNodes[targetNode].location = last.args[2]
             /\ sourceNode \in Range(graph.allNodes[targetNode].parents)
             /\ graph.allNodes[targetNode].level < graph.allNodes[sourceNode].level

-----------------------------------------------------------------------------
(* C21 *)

\* the step is execute on a load by frame last'.args[1]
IsLoadStep == last'.op = "execute" /\ Instr[last'.args[2]].opcode = "Load"

\* the locations the address operand of the load resolves to, before the load
AddressLocations ==
  LET f == last'.args[1]
      address == getLatestValueNoConstantCheck(State, f, Instr[last'.args[2]].ops[1])
  IN resolveLocationTransitively(State, f, address).ret

\* the versions of the load result the step has registered
NewVersions ==
  LET f == last'.args[1]
      before == frames[f].valuesMap[last'.args[2]]
      after  == frames'[f].valuesMap[last'.args[2]]
  IN {after[k] : k \in (Len(before) + 1)..Len(after)}

\* C21: execute on a load whose address resolves transitively to several
\* locations creates a single new version of the load result, and for every
\* resolved location that has a stored value that one version gets a flow
\* dependency from the stored value via the location.
C21_LoadOfSeveralLocations ==
  [][(IsLoadStep /\ Len(AddressLocations) > 1 /\ ~aborted') =>
       LET f == last'.args[1]
       IN /\ Cardinality(NewVersions) = 1
          /\ \A n \in NewVersions : \A k \in DOMAIN AddressLocations :
               LET loc == AddressLocations[k]
                   storedValue == stores(State, f, loc)
               IN storedValue # <<>> =>
                    /\ Has(frames'[f].flowsToMap, n)
                    /\ Has(frames'[f].flowsToMap[n], storedValue[1])
                    /\ frames'[f].flowsToMap[n][storedValue[1]] = loc]_vars

-----------------------------------------------------------------------------
(* C22 *)

\* the step is execute on a load that follows execute on a store by the same
\* frame through the same address operand
LoadAfterStore ==
  /\ last.op = "execute" /\ Instr[last.args[2]].opcode = "Store"
  /\ IsLoadStep
  /\ last'.args[1] = last.args[1]
  /\ Instr[last'.args[2]].ops[1] = Instr[last.args[2]].ops[2]

\* the data value the store has stored: the latest version of its operand
StoredData ==
  getLatestValueNoConstantCheck(State, last.args[1], Instr[last.args[2]].ops[1])

\* C22: within one frame, after execute of a store of V through an address
\* operand, execute of a load through the same operand gives the load's new
\* version a direct flow dependency from V via a location V is stored at,
\* whatever the kind of the address operand.
C22_LoadSeesStore ==
  [][(LoadAfterStore /\ ~aborted') =>
       LET f == last'.args[1]
           n == Back(frames'[f].valuesMap[last'.args[2]])
       IN /\ Has(frames'[f].flowsToMap, n)
          /\ Has(frames'[f].flowsToMap[n], StoredData)
          /\ LET via == frames'[f].flowsToMap[n][StoredData]
             IN via # 0 /\ stores(State, f, via) = <<StoredData>>]_vars

-----------------------------------------------------------------------------
(* C23 *)

\* the graph buildLocationGraph produces for value on the newest frame
GraphOf(value) == buildLocationGraph(EmptyGraph, State, top, value)

\* C23: in every state reached by execute calls, the location graph that
\* buildLocationGraph produces for a versioned value has no node that reaches
\* itself through parent links.
C23_BuiltGraphAcyclic ==
  \A value \in DOMAIN vvals :
    \A n \in DOMAIN GraphOf(value).allNodes : n \notin NodeAncestors(GraphOf(value), n)

-----------------------------------------------------------------------------
(* C24 *)

\* C24: computeCoreLocations called by the branch handler on a frame that has
\* a parent returns: consumeSinksWithLocations reaches its fixpoint on the
\* graph built for the condition.
C24_ComputeCoreLocationsReturns ==
  [][(last'.op = "execute" /\ Instr[last'.args[2]].opcode = "Br"
        /\ last'.args[1] > 1) => ~hung']_vars

-----------------------------------------------------------------------------
(* C25 *)

\* the step is execute on a branch
IsBranchStep == last'.op = "execute" /\ Instr[last'.args[2]].opcode = "Br"

\* the latest version of the condition of the branch, 0 when the branch has
\* no condition or the condition has no version
ConditionVersion ==
  IF Instr[last'.args[2]].ops = <<>> THEN 0
  ELSE getLatestValueNoConstantCheck(State, last'.args[1], Instr[last'.args[2]].ops[1])

\* the versioned values flagged core
CoreValues == {v \in DOMAIN vvals : vvals[v].core}

\* a versioned value without its core flag
Unflagged(vv) == [value |-> vv.value, expr |-> vv.expr]

\* the step leaves every version, location, alias, store and flow entry
\* as it is
EntriesUnchanged ==
  /\ [v \in DOMAIN vvals' |-> Unflagged(vvals'[v])] = [v \in DOMAIN vvals |-> Unflagged(vvals[v])]
  /\ mlocs' = mlocs
  /\ Len(frames') = Len(frames)
  /\ \A h \in DOMAIN frames :
       /\ Facts(frames'[h]) = Facts(frames[h])
       /\ frames'[h].argumentValuesList = frames[h].argumentValuesList

\* C25: execute on a conditional branch whose condition has the latest
\* version C flags core exactly the values C is reached from through flow
\* dependencies (of the frame and its ancestors), C included, on top of
\* those core before, and changes no version list, alias, store or flow
\* entry; a branch without a condition, or whose condition is a constant
\* without a version, changes nothing.
C25_BranchMarksClosure ==
  [][(IsBranchStep /\ ~hung' /\ ~aborted') =>
       IF ConditionVersion # 0
       THEN /\ CoreValues' = CoreValues \cup FlowClosure(last'.args[1], {ConditionVersion})
            /\ EntriesUnchanged
       ELSE (Instr[last'.args[2]].ops = <<>> \/ isConstant(Instr[last'.args[2]].ops[1]))
              => UNCHANGED <<vvals, mlocs, frames, aborted, hung>>]_vars

\* a conditional branch interpreted by a child frame has flagged its
\* condition and what the condition flows from, in the child's flow map and
\* in the parent's, and nothing else
C25_Witness ==
  /\ last.op = "execute" /\ last.args[2] = "brl" /\ last.args[1] = 2
  /\ ~hung /\ ~aborted
  /\ \E v \in CoreValues : \E w \in CoreValues :
       /\ Has(frames[1].flowsToMap, v)
       /\ Has(frames[2].flowsToMap, w)
  /\ LET C == getLatestValueNoConstantCheck(State, last.args[1], "la")
     IN /\ C # 0
        /\ CoreValues = FlowClosure(last.args[1], {C})
        /\ Cardinality(CoreValues) > 2
        /\ CoreValues # DOMAIN vvals

-----------------------------------------------------------------------------
(* C26 *)

\* the step is executeMemoryOperation(instr, boundsCheck) on frame f
IsMemoryStep == last'.op = "executeMemoryOperation"

\* what execute alone makes of the state before the step
Executed == execute(State, last'.args[1], last'.args[2])

\* the address operand of a load or a store
AddressOperand(instr) ==
  IF Instr[instr].opcode = "Load" THEN Instr[instr].ops[1] ELSE Instr[instr].ops[2]

\* S and every value reached from S through the flow maps of the frames
\* store[1..f]
RECURSIVE FlowClosureIn(_, _, _)
FlowClosureIn(store, f, S) ==
  LET edges == {x \in (1..f) \X S : Has(store[x[1]].flowsToMap, x[2])}
      T == S \cup UNION {DOMAIN store[x[1]].flowsToMap[x[2]] : x \in edges}
  IN IF T = S THEN S ELSE FlowClosureIn(store, f, T)

\* a frame without its core locations
Uncored(frame) ==
  <<Facts(frame), frame.argumentValuesList>>

\* C26: executeMemoryOperation with boundsCheck false leaves the state that
\* execute alone produces.  With boundsCheck true, on a load or a store, it
\* flags core in addition the values the latest version of the address
\* operand (operand 0 of a load, operand 1 of a store) is reached from
\* through flow dependencies, and adds to the core locations of the frame
\* the sinks of the graph built for that version; what execute produced is
\* otherwise left as it is.  With boundsCheck true any other opcode fails.
C26_MemoryOperation ==
  [][IsMemoryStep =>
       LET f == last'.args[1]
           instr == last'.args[2]
           boundsCheck == last'.args[3]
           e == Executed
       IN /\ ~boundsCheck =>
               /\ vvals' = e.vvals /\ mlocs' = e.mlocs /\ frames' = e.frames
               /\ aborted' = e.aborted /\ hung' = e.hung
          /\ (boundsCheck /\ ~e.aborted
                /\ Instr[instr].opcode \notin {"Load", "Store"}) => aborted'
          /\ (boundsCheck /\ ~e.aborted /\ ~aborted' /\ ~hung'
                /\ Instr[instr].opcode \in {"Load", "Store"}) =>
               LET A == getLatestValueNoConstantCheck(e, f, AddressOperand(instr))
                   before == {v \in DOMAIN e.vvals : e.vvals[v].core}
               IN /\ A # 0 => CoreValues' = before \cup FlowClosureIn(e.frames, f, {A})
                  /\ A = 0 => CoreValues' = before
                  /\ [v \in DOMAIN vvals' |-> Unflagged(vvals'[v])]
                       = [v \in DOMAIN e.vvals |-> Unflagged(e.vvals[v])]
                  /\ mlocs' = e.mlocs
                  /\ [h \in DOMAIN frames' |-> Uncored(frames'[h])]
                       = [h \in DOMAIN e.frames |-> Uncored(e.frames[h])]
                  /\ frames'[f].coreLocations =
                       e.frames[f].coreLocations \cup
                         (IF A = 0 THEN {}
                          ELSE getSinkLocations(buildLocationGraph(EmptyGraph, e, f, A)))]_vars

\* a store with a bounds check has flagged the latest version of its
\* address operand, and not the data it stored
C26_Witness ==
  /\ last.op = "executeMemoryOperation" /\ last.args[3]
  /\ Instr[last.args[2]].opcode = "Store"
  /\ ~aborted /\ ~hung
  /\ LET f == last.args[1]
         A == getLatestValueNoConstantCheck(State, f, Instr[last.args[2]].ops[2])
         V == getLatestValueNoConstantCheck(State, f, Instr[last.args[2]].ops[1])
     IN /\ A # 0 /\ vvals[A].core
        /\ V # 0 /\ ~vvals[V].core

-----------------------------------------------------------------------------
(* C27 *)

\* the flow edges <<frame, source, target>> of a chain of frames
FlowEdges(store) ==
  UNION {UNION {{<<h, source, target>> :
                   source \in DOMAIN store[h].flowsToMap[target]} :
                  target \in DOMAIN store[h].flowsToMap} :
           h \in DOMAIN store}

\* no value of the chain is reached from itself through flow edges
FlowAcyclic(store) ==
  \A edge \in FlowEdges(store) :
    edge[3] \notin FlowClosureIn(store, Len(store), {edge[2]})

\* C27: the flow relation of the chain of frames is acyclic after every
\* operation, and the target of every flow edge an operation adds is a
\* versioned value the operation has created.
C27_FlowsAcyclic ==
  [][/\ \A edge \in FlowEdges(frames') :
          \/ edge[1] \in DOMAIN frames /\ edge \in FlowEdges(frames)
          \/ edge[3] > Len(vvals)
     /\ FlowAcyclic(frames')]_vars

\* a return value has been bound after a call, a PHI node and a sum: the
\* result of the call, a formal parameter, the PHI node and the sum each
\* have a flow source
C27_Witness ==
  /\ last.op = "bindReturnValue"
  /\ \A value \in {"call", "p0", "phi", "add", "gepl"} :
       \E edge \in FlowEdges(frames) : vvals[edge[3]].value = value

-----------------------------------------------------------------------------
(* C28 *)

\* the operations of a frame on an instruction
FrameOperations ==
  {"execute", "executePHI", "executeMemoryOperation", "bindCallArguments",
   "bindReturnValue"}

\* C28: no execute, executePHI, executeMemoryOperation, bindCallArguments or
\* bindReturnValue call clears the core flag of a versioned value or removes
\* a location from the core locations of a frame.
C28_CoreMonotone ==
  [][last'.op \in FrameOperations =>
       /\ CoreValues \subseteq CoreValues'
       /\ Len(frames') = Len(frames)
       /\ \A h \in DOMAIN frames :
            frames[h].coreLocations \subseteq frames'[h].coreLocations]_vars

\* a return value is bound after a branch and a memory operation with a
\* bounds check: what they flagged is still core, in the values and in the
\* core locations of the child frame and of its parent
C28_Witness ==
  /\ last.op = "bindReturnValue"
  /\ Len(frames) = 2
  /\ frames[1].coreLocations # {} /\ frames[2].coreLocations # {}
  /\ \E v \in CoreValues : vvals[v].value = "add"
  /\ \E v \in CoreValues : vvals[v].value = "a"

-----------------------------------------------------------------------------
(* C29 *)

\* the locations of the frames 1..f
LocationsUpTo(f) == UNION {Range(frames[h].versionedLocationsList) : h \in 1..f}

\* C29: the core locations of a frame are locations of the frame or of its
\* ancestors, never of a descendant, and none of them has been released.
C29_CoreLocationsOfAncestors ==
  \A f \in DOMAIN frames :
    /\ frames[f].coreLocations \subseteq LocationsUpTo(f)
    /\ frames[f].coreLocations \cap deleted.mlocs = {}

-----------------------------------------------------------------------------
(* C31 *)

\* the level of the first node holding loc in the graph gr, 0 when no node
\* holds it
LevelIn(gr, loc) ==
  IF findNode(gr, loc) = 0 THEN 0 ELSE gr.allNodes[findNode(gr, loc)].level

\* the higher of two levels
Higher(a, b) == IF a < b THEN b ELSE a

\* C31: addNewEdge(source, target) changes the level of no node that exists;
\* the node of the target keeps its level, or is created with level 0, and
\* a node created for the source in the call has the level of the target
\* node plus one.
C31_SourceAboveTarget ==
  [][last'.op = "addNewEdge" =>
       /\ Len(graph'.allNodes) >= Len(graph.allNodes)
       /\ \A n \in DOMAIN graph.allNodes :
            /\ graph'.allNodes[n].level = graph.allNodes[n].level
            /\ graph'.allNodes[n].location = graph.allNodes[n].location
       /\ LevelIn(graph', last'.args[2]) = LevelIn(graph, last'.args[2])
       /\ \A n \in DOMAIN graph'.allNodes :
            Fresh(n) =>
              \/ /\ graph'.allNodes[n].location = last'.args[1]
                 /\ graph'.allNodes[n].level = LevelIn(graph, last'.args[2]) + 1
              \/ /\ graph'.allNodes[n].location = last'.args[2]
                 /\ findNode(graph, last'.args[2]) = 0
                 /\ graph'.allNodes[n].level = 0]_vars

\* C31 as stated: after addNewEdge(source, target) the level of the target
\* node is one above the higher of its level before and the level of the
\* source node
C31_Original ==
  [][last'.op = "addNewEdge" =>
       LevelIn(graph', last'.args[2]) =
         Higher(LevelIn(graph, last'.args[2]), LevelIn(graph', last'.args[1])) + 1]_vars

\* an addNewEdge(source, target) on a target that had a node of level 1 has
\* created a node of level 2 for the source and left the target at level 1
C31_Witness ==
  /\ last.op = "addNewEdge"
  /\ LevelIn(graph, last.args[2]) = 1
  /\ LET sourceNode == Len(graph.allNodes)
     IN /\ graph.allNodes[sourceNode].location = last.args[1]
        /\ graph.allNodes[sourceNode].level = 2
        /\ findNode(graph, last.args[2]) < sourceNode
        /\ sourceNode \in Range(graph.allNodes[findNode(graph, last.args[2])].parents)

-----------------------------------------------------------------------------
(* C32 *)

\* two calls of resolveLocation in a row on the same version, the first of
\* which returned a location
ResolvedAgain ==
  /\ last.op = "resolveLocation"
  /\ last'.op = "resolveLocation"
  /\ last'.args = last.args
  /\ last.res # 0

\* C32: resolveLocation(v), called again after a call that returned the
\* location L for v (found, or synthesized for an argument of main), returns
\* L again and creates no location and no version.
C32_ResolveLocationAgain ==
  [][ResolvedAgain =>
       /\ last'.res = last.res
       /\ vvals' = vvals
       /\ mlocs' = mlocs]_vars

-----------------------------------------------------------------------------
(* C37 *)

\* the frames among 1..f that hold a version of value
FramesHolding(f, value) == {h \in 1..f : frames[h].valuesMap[value] # <<>>}

\* the most recent version of value in the nearest of the frames f, f-1, ..
\* that has one, 0 when none has
NearestVersion(f, value) ==
  IF FramesHolding(f, value) = {} THEN 0
  ELSE Back(frames[CHOOSE h \in FramesHolding(f, value) :
                     \A k \in FramesHolding(f, value) : k <= h].valuesMap[value])

\* C37: getLatestValue on a constant that is no global value creates a
\* version that did not exist, appends it to the version list of the value
\* in the frame asked and returns it; getLatestValueNoConstantCheck changes
\* nothing and returns the most recent version of the nearest frame that
\* has one, or nothing.
C37_ConstantLookups ==
  [][/\ (/\ last'.op = "getLatestValue"
         /\ isConstant(last'.args[2]) /\ ~isGlobalValue(last'.args[2]))
        => /\ last'.res \notin DOMAIN vvals
           /\ last'.res \in DOMAIN vvals'
           /\ vvals'[last'.res].value = last'.args[2]
           /\ \A v \in DOMAIN vvals : vvals'[v] = vvals[v]
           /\ frames'[last'.args[1]].valuesMap[last'.args[2]] =
                Append(frames[last'.args[1]].valuesMap[last'.args[2]], last'.res)
     /\ last'.op = "getLatestValueNoConstantCheck"
        => /\ UNCHANGED <<vvals, mlocs, frames, aborted, hung, graph>>
           /\ last'.res = NearestVersion(last'.args[1], last'.args[2])]_vars

\* after two lookups of the literal c, each of which made a version, the
\* lookup without the constant check has returned the second version of c
\* and made none
C37_Witness ==
  /\ last.op = "getLatestValueNoConstantCheck"
  /\ last.args[2] = "c"
  /\ Len(frames[last.args[1]].valuesMap["c"]) = 2
  /\ last.res = frames[last.args[1]].valuesMap["c"][2]
  /\ last.res # frames[last.args[1]].valuesMap["c"][1]
  /\ Len(vvals) = 2

-----------------------------------------------------------------------------
(* C33 *)

\* the step is execute on a getelementptr whose base operand is a constant
IsConstantBaseStep ==
  /\ last'.op = "execute"
  /\ Instr[last'.args[2]].opcode = "GetElementPtr"
  /\ isConstant(Instr[last'.args[2]].ops[1])

\* the positions of the location list of frame h that hold a location of
\* the site and the address
Matches(h, site, address) ==
  {i \in DOMAIN frames[h].versionedLocationsList :
     /\ mlocs[frames[h].versionedLocationsList[i]].site = site
     /\ mlocs[frames[h].versionedLocationsList[i]].address = address}

\* the location created last in the nearest of the frames f, f-1, .. that
\* has one of the site and the address, 0 when none has
LatestExisting(f, site, address) ==
  LET holders == {h \in 1..f : Matches(h, site, address) # {}}
      h == CHOOSE x \in holders : \A y \in holders : y <= x
      i == CHOOSE x \in Matches(h, site, address) :
             \A y \in Matches(h, site, address) : y <= x
  IN IF holders = {} THEN 0 ELSE frames[h].versionedLocationsList[i]

\* C33: execute on a getelementptr with a constant base creates one version
\* of the result in the frame, aliases it to the latest location of the
\* chain whose site is the base operand and whose address is the result's
\* expression, or to a new location of that site and address registered in
\* the frame when there is none, and adds no flow dependency; so a second
\* execution with the same expression creates no location.
C33_ConstantBase ==
  [][IsConstantBaseStep =>
       LET f == last'.args[1]
           instr == last'.args[2]
           base == Instr[instr].ops[1]
           latest == LatestExisting(f, base, instr)
           newValue == Len(vvals) + 1
           loc == IF latest # 0 THEN latest ELSE Len(mlocs) + 1
       IN /\ vvals' = Append(vvals, [value |-> instr, expr |-> instr, core |-> FALSE])
          /\ mlocs' = IF latest # 0 THEN mlocs
                      ELSE Append(mlocs, [site |-> base, address |-> instr])
          /\ frames' =
               [frames EXCEPT
                  ![f].valuesMap[instr] = Append(@, newValue),
                  ![f].versionedLocationsList =
                      IF latest # 0 THEN @ ELSE Append(@, loc),
                  ![f].equalityMap = Put(@, newValue, <<loc>>)]
          /\ ~aborted' /\ ~hung']_vars

\* the getelementptr from the global variable has been executed a second
\* time, by a child of the frame that executed it first: both versions are
\* aliased to the one location of that site and address
C33_Witness ==
  /\ last.op = "execute" /\ last.args[2] = "gepg" /\ last.args[1] = 2
  /\ Len(frames[1].valuesMap["gepg"]) = 1
  /\ Len(frames[2].valuesMap["gepg"]) = 1
  /\ LET first == frames[1].valuesMap["gepg"][1]
         second == frames[2].valuesMap["gepg"][1]
     IN /\ Has(frames[1].equalityMap, first)
        /\ Has(frames[2].equalityMap, second)
        /\ frames[2].equalityMap[second] = frames[1].equalityMap[first]
        /\ Cardinality({l \in DOMAIN mlocs : mlocs[l].address = "gepg"}) = 1

-----------------------------------------------------------------------------
(* C34 *)

\* the step is execute on a select or on an instruction of the binary family
IsTernaryStep ==
  /\ last'.op = "execute"
  /\ Instr[last'.args[2]].opcode \in BinaryOpcodes \cup {"Select"}

\* the two operands the result depends on: operands 1 and 2 of a select,
\* operands 0 and 1 of the others
DataOperands(instr) ==
  IF Instr[instr].opcode = "Select"
  THEN <<Instr[instr].ops[2], Instr[instr].ops[3]>>
  ELSE <<Instr[instr].ops[1], Instr[instr].ops[2]>>

\* the operand resolves: it is a constant (a version is made, or found, for
\* it), it has a version in the frame or in an ancestor, or it is the
\* operand named start (in the first place) or end (in the second) of an
\* instruction of klee_range that is no select
OperandResolves(f, instr, k) ==
  LET operand == DataOperands(instr)[k]
  IN \/ isConstant(operand)
     \/ NearestVersion(f, operand) # 0
     \/ /\ instr \in KleeRange
        /\ Instr[instr].opcode # "Select"
        /\ operand = <<"start", "end">>[k]

\* the versions of value the step has created
CreatedFor(value) ==
  {v \in DOMAIN vvals' : v \notin DOMAIN vvals /\ vvals'[v].value = value}

\* the latest version of value in frame f after the step
LatestAfter(f, value) ==
  IF frames'[f].valuesMap[value] # <<>> THEN Back(frames'[f].valuesMap[value])
  ELSE NearestVersion(f, value)

\* C34: execute on a select or on an instruction of the binary family
\* creates no version of the result when neither of the two operands
\* resolves, and otherwise one, whose flow sources are exactly the latest
\* versions of the operands that resolve; it adds no other flow dependency.
\* execute on an instruction with two operands of another opcode fails.
C34_OneSharedResult ==
  [][/\ (last'.op = "execute" /\ Instr[last'.args[2]].opcode = "InsertElement")
          => aborted'
     /\ IsTernaryStep =>
       LET f == last'.args[1]
           instr == last'.args[2]
           resolved == {k \in 1..2 : OperandResolves(f, instr, k)}
       IN /\ ~aborted' /\ ~hung'
          /\ Cardinality(CreatedFor(instr)) = IF resolved = {} THEN 0 ELSE 1
          /\ \A h \in DOMAIN frames : h # f => frames'[h] = frames[h]
          /\ \A target \in DOMAIN frames'[f].flowsToMap :
               IF target \in CreatedFor(instr)
               THEN DOMAIN frames'[f].flowsToMap[target] =
                      {LatestAfter(f, DataOperands(instr)[k]) : k \in resolved}
               ELSE /\ Has(frames[f].flowsToMap, target)
                    /\ frames'[f].flowsToMap[target] = frames[f].flowsToMap[target]
          /\ CreatedFor(instr) \subseteq DOMAIN frames'[f].flowsToMap
          /\ \A v \in CreatedFor(instr) : Back(frames'[f].valuesMap[instr]) = v]_vars

\* every kind of operand pair has been met: addu, selu and rngr, whose
\* operands do not resolve, have no version; the results of rng and cmpc
\* depend on two versions, those of cmpu and sell on one, the loaded value
C34_Witness ==
  /\ last.op = "execute" /\ last.args[2] = "add" /\ last.args[1] = 2
  /\ ~aborted
  /\ \A v \in DOMAIN vvals : vvals[v].value \notin {"addu", "selu", "rngr"}
  /\ \A i \in {"rng", "cmpc", "add"} :
       \E v \in DOMAIN vvals : \E h \in DOMAIN frames :
         /\ vvals[v].value = i
         /\ Has(frames[h].flowsToMap, v)
         /\ Cardinality(DOMAIN frames[h].flowsToMap[v]) = 2
  /\ \A i \in {"cmpu", "sell"} :
       \E v \in DOMAIN vvals : \E h \in DOMAIN frames :
         /\ vvals[v].value = i
         /\ Has(frames[h].flowsToMap, v)
         /\ \A src \in DOMAIN frames[h].flowsToMap[v] : vvals[src].value = "la"
         /\ Cardinality(DOMAIN frames[h].flowsToMap[v]) = 1

-----------------------------------------------------------------------------
(* C35 *)

\* a versioned value as getNewVersionedValue makes it
Version(value, expr) == [value |-> value, expr |-> expr, core |-> FALSE]

\* the step registers the operand anew and makes the result depend on it
OperandAndResult(f, instr, op0) ==
  /\ vvals' = vvals \o <<Version(op0, instr), Version(instr, instr)>>
  /\ mlocs' = mlocs
  /\ frames' =
       [frames EXCEPT
          ![f].valuesMap[op0] = Append(@, Len(vvals) + 1),
          ![f].valuesMap[instr] = Append(@, Len(vvals) + 2),
          ![f].flowsToMap =
             Put(@, Len(vvals) + 2, Put(EmptyMap, Len(vvals) + 1, 0))]
  /\ ~aborted'

\* C35: execute on a conversion or extractvalue whose operand is no constant
\* and has no version in the chain: a pointer-typed operand has the result
\* aliased to a new location of the operand; otherwise an argument is
\* registered anew and the result depends on it; otherwise the result of a
\* call is registered anew and nothing else is made; otherwise, with the
\* error flag, the operand is registered anew and the result depends on it;
\* otherwise execute fails.  execute on an instruction with one operand of
\* another opcode fails.
C35_Fallbacks ==
  [][/\ (last'.op = "execute" /\ Instr[last'.args[2]].opcode = "VAArg") => aborted'
     /\ (/\ last'.op = "execute"
         /\ Instr[last'.args[2]].opcode \in UnaryOpcodes
         /\ ~isConstant(Instr[last'.args[2]].ops[1])
         /\ NearestVersion(last'.args[1], Instr[last'.args[2]].ops[1]) = 0)
        => LET f == last'.args[1]
               instr == last'.args[2]
               op0 == Instr[instr].ops[1]
           IN IF isPointerTy(op0)
              THEN /\ vvals' = Append(vvals, Version(instr, instr))
                   /\ mlocs' = Append(mlocs, [site |-> op0, address |-> instr])
                   /\ frames' =
                        [frames EXCEPT
                           ![f].valuesMap[instr] = Append(@, Len(vvals) + 1),
                           ![f].versionedLocationsList = Append(@, Len(mlocs) + 1),
                           ![f].equalityMap =
                              Put(@, Len(vvals) + 1, <<Len(mlocs) + 1>>)]
                   /\ ~aborted'
              ELSE IF isArgument(op0) THEN OperandAndResult(f, instr, op0)
              ELSE IF isCallInst(op0)
              THEN /\ vvals' = Append(vvals, Version(op0, instr))
                   /\ mlocs' = mlocs
                   /\ frames' = [frames EXCEPT
                                   ![f].valuesMap[op0] = Append(@, Len(vvals) + 1)]
                   /\ ~aborted'
              ELSE IF last'.args[3] THEN OperandAndResult(f, instr, op0)
              ELSE aborted' /\ vvals' = vvals /\ mlocs' = mlocs /\ frames' = frames]_vars

\* every fallback has been taken by the frame: the result of the conversion
\* of the pointer argument is aliased and depends on nothing, the results of
\* those of the argument and of the load not executed depend on the operand,
\* the call has a version and the conversion of it has none
C35_Witness ==
  /\ last.op = "execute" /\ last.args[2] = "zlb" /\ last.args[3]
  /\ ~aborted
  /\ Len(frames) = 1
  /\ Len(frames[1].valuesMap["zpu"]) = 1
  /\ Has(frames[1].equalityMap, frames[1].valuesMap["zpu"][1])
  /\ ~Has(frames[1].flowsToMap, frames[1].valuesMap["zpu"][1])
  /\ Len(frames[1].valuesMap["pu"]) = 0
  /\ Len(frames[1].valuesMap["zb"]) = 1
  /\ Len(frames[1].valuesMap["zu"]) = 1
  /\ Has(frames[1].flowsToMap, frames[1].valuesMap["zu"][1])
  /\ Len(frames[1].valuesMap["call"]) = 1
  /\ Len(frames[1].valuesMap["zc"]) = 0
  /\ Len(frames[1].valuesMap["zlb"]) = 1
  /\ DOMAIN frames[1].flowsToMap[frames[1].valuesMap["zlb"][1]] = Range(frames[1].valuesMap["lb"])

-----------------------------------------------------------------------------
(* C36 *)

\* the incoming value the step selects
Incoming == Instr[last'.args[2]].ops[last'.args[3] + 1]

\* C36: executePHI that does not fail creates one version of the result: a
\* flow target of the latest version of the selected incoming value when
\* that resolves (it has a version in the chain, or is a constant, for which
\* one is made); with no flow source when it does not resolve and is an
\* argument or the error flag is set.  In every other case executePHI fails
\* and creates no version.  No other flow entry changes.
C36_PhiResult ==
  [][last'.op = "executePHI" =>
       LET f == last'.args[1]
           instr == last'.args[2]
           resolves == isConstant(Incoming) \/ NearestVersion(f, Incoming) # 0
           tolerated == isArgument(Incoming) \/ last'.args[4]
       IN /\ aborted' <=> (~resolves /\ ~tolerated)
          /\ aborted' => vvals' = vvals /\ frames' = frames
          /\ ~aborted' =>
               /\ Cardinality(CreatedFor(instr)) = 1
               /\ \A v \in CreatedFor(instr) :
                    /\ Back(frames'[f].valuesMap[instr]) = v
                    /\ IF resolves
                       THEN /\ Has(frames'[f].flowsToMap, v)
                            /\ DOMAIN frames'[f].flowsToMap[v] = {LatestAfter(f, Incoming)}
                       ELSE /\ ~Has(frames'[f].flowsToMap, v)
                            /\ vvals' = Append(vvals, Version(instr, instr))
               /\ \A h \in DOMAIN frames : \A target \in DOMAIN frames'[h].flowsToMap :
                    target \notin CreatedFor(instr) =>
                      /\ Has(frames[h].flowsToMap, target)
                      /\ frames'[h].flowsToMap[target] = frames[h].flowsToMap[target]]_vars

\* the PHI node has selected a load that was not executed, in a state with
\* a symbolic execution error: its result has a version and no flow source
C36_Witness ==
  /\ last.op = "executePHI" /\ last.args[3] = 4 /\ last.args[4]
  /\ ~aborted
  /\ \A v \in DOMAIN vvals : vvals[v].value # "lsel"
  /\ \E v \in DOMAIN vvals :
       /\ vvals[v].value = "phi"
       /\ \A h \in DOMAIN frames : ~Has(frames[h].flowsToMap, v)

-----------------------------------------------------------------------------
(* C38 *)

\* C38: getShadowExpression leaves the map of shadow arrays as it is,
\* whether or not the arrays the expression reads have an entry; after
\* addShadowArrayMap(source, target) the entry of source is target and the
\* other entries are as before.
C38_MapReadOnly ==
  [][/\ last'.op = "getShadowExpression" => shadowArray' = shadowArray
     /\ last'.op = "addShadowArrayMap" =>
          /\ Has(shadowArray', last'.args[1])
          /\ shadowArray'[last'.args[1]] = last'.args[2]
          /\ DOMAIN shadowArray' = DOMAIN shadowArray \cup {last'.args[1]}
          /\ \A a \in DOMAIN shadowArray :
               a # last'.args[1] => shadowArray'[a] = shadowArray[a]]_vars

-----------------------------------------------------------------------------
(* C39 *)

\* the kinds getShadowExpression has a case for
SupportedKinds ==
  {"Read", "Constant", "Select", "Extract", "ZExt", "SExt", "NotOptimized"}
    \cup BinaryFamily

\* every node of the expression, update lists included, is of a supported
\* kind
RECURSIVE Supported(_)
Supported(expr) ==
  /\ expr.kind \in SupportedKinds
  /\ \A k \in DOMAIN expr.kids : Supported(expr.kids[k])
  /\ \A k \in DOMAIN expr.updates :
       Supported(expr.updates[k].index) /\ Supported(expr.updates[k].value)

\* the two trees have the same kind, number of kids, offset and width at
\* every position, equal constants, and update lists of the same length
\* whose writes correspond in order
RECURSIVE SameShape(_, _)
SameShape(expr, shadow) ==
  /\ shadow.kind = expr.kind
  /\ Len(shadow.kids) = Len(expr.kids)
  /\ shadow.data = expr.data
  /\ expr.kind = "Constant" => shadow = expr
  /\ \A k \in DOMAIN expr.kids : SameShape(expr.kids[k], shadow.kids[k])
  /\ Len(shadow.updates) = Len(expr.updates)
  /\ \A k \in DOMAIN expr.updates :
       /\ SameShape(expr.updates[k].index, shadow.updates[k].index)
       /\ SameShape(expr.updates[k].value, shadow.updates[k].value)

\* C39: getShadowExpression of an expression built from the supported kinds
\* returns a tree of the same shape: the same kind and number of kids at
\* every position (one kid for Not), the same offset and width, the same
\* constants, and update lists of the same length in the same order.
C39_SameShape ==
  [][(last'.op = "getShadowExpression" /\ Supported(last'.args[1])) =>
       /\ ~aborted'
       /\ SameShape(last'.args[1], last'.res.ret)]_vars

=============================================================================
